---------------------------- MODULE Spec2Model ----------------------------
(***************************************************************************)
(* A model of cntrydump.py, the decoder of the DOS COUNTRY.SYS locale      *)
(* descriptor: far-pointer resolution, token-fit unpacking, tagged blocks, *)
(* the walk of the whole file (parse_country_sys) and the comparison of    *)
(* two decoded documents (compare_country_sys).                            *)
(*                                                                         *)
(* Bytes are integers 0..255.  A buffer is a record [data, pad]: the bytes *)
(* of data followed by pad zero bytes, so that long files stay small in    *)
(* the state.  Strings the code handles (magics) are tuples of character   *)
(* codes.  A Python exception is a value of the variable ret.              *)
(***************************************************************************)
EXTENDS Integers, Sequences, FiniteSets, TLC

VARIABLES
    pc,         \* position of the running call: "call", a loop name, "done"
    arg,        \* arguments of the function under call
    ret,        \* what the call returned or raised; NoRet while running
    warnings,   \* the diagnostics list the call appends to
    hdr,        \* parse_country_sys: entry_table_count, pointer_info_type
    ptrs,       \* parse_country_sys: resolved entry-table pointers
    entries,    \* parse_country_sys: CountryEntry list built so far
    t_i,        \* parse_country_sys: index of the entry table being walked
    x_i,        \* parse_country_sys: index of the entry inside its table
    X,          \* parse_country_sys: entry count declared by the table
    pos,        \* parse_country_sys: cursor inside the entry table
    cur,        \* parse_country_sys: the entry whose subfunctions are walked
    y_i,        \* parse_country_sys: index of the subfunction record
    Y,          \* parse_country_sys: subfunction count declared by the table
    sfpos,      \* parse_country_sys: cursor inside the subfunction table
    subfuncs    \* parse_country_sys: SubfuncEntry list of the current entry

vars == <<pc, arg, ret, warnings, hdr, ptrs, entries, t_i, x_i, X, pos, cur,
          y_i, Y, sfpos, subfuncs>>

walk == <<hdr, ptrs, entries, t_i, x_i, X, pos, cur, y_i, Y, sfpos, subfuncs>>

NoRet == [kind |-> "none"]
None == [kind |-> "None"]

\* The locals of parse_country_sys before the call starts.
WalkIdle ==
    /\ hdr = None /\ ptrs = <<>> /\ entries = <<>> /\ cur = None
    /\ t_i = 0 /\ x_i = 0 /\ X = 0 /\ pos = 0
    /\ y_i = 0 /\ Y = 0 /\ sfpos = 0 /\ subfuncs = <<>>

---------------------------------------------------------------------------
(* Bytes and buffers *)

Min(a, b) == IF a < b THEN a ELSE b
Max(a, b) == IF a > b THEN a ELSE b

Byte == 0..255

\* The value v, computed once, handed to an operator that uses it many times.
Once(S) == CHOOSE x \in S : TRUE

\* len(buf)
FLen(b) == Len(b.data) + b.pad

\* buf[i], for 0 <= i < len(buf)
ByteAt(b, i) == IF i < Len(b.data) THEN b.data[i + 1] ELSE 0

\* buf[a:e] of Python: both ends clamped to the buffer, never an error.
Slice(b, a, e) ==
    Once({Once({[k \in 1..Max(hi - lo, 0) |-> ByteAt(b, lo + k - 1)] :
                hi \in {Min(Max(e, 0), FLen(b))}}) :
          lo \in {Min(Max(a, 0), FLen(b))}})

\* A bytes object as a buffer of its own.
Bytes(s) == [data |-> s, pad |-> 0]

\* What struct.unpack_from raises when the field does not lie in the buffer.
StructError == -1

\* struct.unpack_from("<B" / "<H" / "<I", buf, off)[0]
U8(b, off) ==
    IF off < 0 \/ off + 1 > FLen(b) THEN StructError ELSE ByteAt(b, off)
U16(b, off) ==
    IF off < 0 \/ off + 2 > FLen(b) THEN StructError
    ELSE ByteAt(b, off) + 256 * ByteAt(b, off + 1)
\* A 32-bit value is kept as its two 16-bit words (lo, hi): the value is
\* hi * 65536 + lo.
U32(b, off) ==
    IF off < 0 \/ off + 4 > FLen(b) THEN [lo |-> StructError, hi |-> StructError]
    ELSE [lo |-> ByteAt(b, off) + 256 * ByteAt(b, off + 1),
          hi |-> ByteAt(b, off + 2) + 256 * ByteAt(b, off + 3)]

\* The 32-bit value of a small natural number.
U32Of(n) == [lo |-> n % 65536, hi |-> (n \div 65536) % 65536]

\* bytes.rstrip(chars)
RStrip(s, chars) ==
    Once({LET kept == {k \in 1..Len(v) : v[k] \notin chars}
          IN  IF kept = {} THEN <<>>
              ELSE SubSeq(v, 1, CHOOSE k \in kept : \A j \in kept : j <= k) :
          v \in {s}})

\* bytes.decode("ascii", "replace"): a byte above 0x7F becomes U+FFFD.
DecodeAscii(s) ==
    Once({[k \in 1..Len(v) |-> IF v[k] < 128 THEN v[k] ELSE 65533] : v \in {s}})

---------------------------------------------------------------------------
(* decode_far_ptr *)

\* decode_far_ptr that never falls back to the low 16 bits.
decode_far_ptr_no_fallback(u32, file_len) ==
    LET raw == u32
        off == raw.lo
        seg == raw.hi
        lin0 == IF seg = 0 THEN off ELSE seg * 16 + off
    IN  [raw_u32 |-> raw, seg |-> seg, off |-> off, linear |-> lin0,
         warns |-> IF lin0 > file_len THEN <<"pointer beyond file length">> ELSE <<>>]

\* decode_far_ptr without its last test (linear != off != raw).
decode_far_ptr_keeps_linear(u32, file_len) ==
    LET raw == u32
        off == raw.lo
        seg == raw.hi
        lin0 == IF seg = 0 THEN off ELSE seg * 16 + off
        fb == lin0 > file_len /\ off <= file_len
        lin1 == IF fb THEN off ELSE lin0
        w1 == IF fb THEN <<"far ptr beyond EOF; using low16">> ELSE <<>>
        w2 == IF lin1 > file_len THEN <<"pointer beyond file length">> ELSE <<>>
    IN  [raw_u32 |-> raw, seg |-> seg, off |-> off, linear |-> lin1,
         warns |-> w1 \o w2]

\* decode_far_ptr(u32, file_len, warnings, ctx): the FarPtr, and in warns the
\* diagnostics it appends.  off != raw holds exactly when the high word of
\* raw is not 0.
decode_far_ptr(u32, file_len) ==
    LET raw == u32
        off == raw.lo
        seg == raw.hi
        lin0 == IF seg = 0 THEN off ELSE seg * 16 + off
        fb == lin0 > file_len /\ off <= file_len
        lin1 == IF fb THEN off ELSE lin0
        w1 == IF fb THEN <<"far ptr beyond EOF; using low16">> ELSE <<>>
        w2 == IF lin1 > file_len THEN <<"pointer beyond file length">> ELSE <<>>
        last == lin1 # off /\ raw.hi # 0
        lin2 == IF last THEN off ELSE lin1
        w3 == IF last THEN <<"raw != off != linear; using low16">> ELSE <<>>
    IN  [raw_u32 |-> raw, seg |-> seg, off |-> off, linear |-> lin2,
         warns |-> w1 \o w2 \o w3]

\* The FarPtr dataclass of a decode_far_ptr result.
FarPtr(r) == [raw_u32 |-> r.raw_u32, seg |-> r.seg, off |-> r.off, linear |-> r.linear]

\* Bounds of the pointers and buffer lengths tried.
MaxOff == 20
MaxFileLen == 20

\* Segments and offsets tried: small ones, and the 16-bit extremes.
SegVals == {0, 1, 2, 4095, 65535}
OffVals == 0..MaxOff \cup {65535}

InitFarPtr ==
    /\ pc = "call"
    /\ arg \in [seg : SegVals, off : OffVals, file_len : 0..MaxFileLen]
    /\ ret = NoRet
    /\ warnings = <<>>
    /\ WalkIdle

\* The call decode_far_ptr(seg:off, file_len, warnings, ctx).
DecodeFarPtr ==
    /\ pc = "call"
    /\ \E r \in {decode_far_ptr([lo |-> arg.off, hi |-> arg.seg], arg.file_len)} :
           /\ ret' = [kind |-> "FarPtr", val |-> FarPtr(r)]
           /\ warnings' = warnings \o r.warns
    /\ pc' = "done"
    /\ UNCHANGED <<arg, walk>>

NextFarPtr == DecodeFarPtr

SpecFarPtr == InitFarPtr /\ [][NextFarPtr]_vars

\* C3: decode_far_ptr returns a FarPtr for every pointer and buffer length;
\* with segment 0 the linear address is the low 16 bits; and resolving the
\* returned linear address again gives the same linear address.
C3_FarPtrTotalIdempotent ==
    pc = "done" =>
        /\ ret.kind = "FarPtr"
        /\ ret.val.linear \in Nat
        /\ (arg.seg = 0 => ret.val.linear = arg.off)
        /\ decode_far_ptr(U32Of(ret.val.linear), arg.file_len).linear = ret.val.linear

\* C3: a pointer 0001:0002, whose seg*16+off lies inside a 20-byte buffer, was
\* resolved, and the result resolves to itself.
C3_Witness ==
    /\ pc = "done"
    /\ arg.seg = 1 /\ arg.off = 2 /\ arg.file_len = 20
    /\ ret.kind = "FarPtr"
    /\ decode_far_ptr(U32Of(ret.val.linear), arg.file_len).linear = ret.val.linear

---------------------------------------------------------------------------
(* token_fit_unpack *)

\* A schema field (name, format, default) of token_fit_unpack; the format is
\* a struct character and, for "s", the byte count before it.
Field(name, fmt, n, default) == [name |-> name, fmt |-> fmt, n |-> n, default |-> default]

\* The schema decode_ctyinfo hands to token_fit_unpack.  The default 0 of the
\* "I" field is the 32-bit value 0.
CtyinfoFields == <<
    Field("country_id", "H", 1, 0), Field("codepage", "H", 1, 0),
    Field("date_format", "H", 1, 0),
    Field("currency_symbol", "s", 5, <<>>), Field("thousands_sep", "s", 2, <<>>),
    Field("decimal_sep", "s", 2, <<>>), Field("date_sep", "s", 2, <<>>),
    Field("time_sep", "s", 2, <<>>),
    Field("currency_format", "B", 1, 0), Field("currency_decimals", "B", 1, 0),
    Field("time_format", "B", 1, 0), Field("case_map_ptr_raw", "I", 1, U32Of(0)),
    Field("data_sep", "s", 2, <<>>), Field("reserved", "s", 10, <<>>) >>

\* struct.calcsize("<" + fmt)
Calcsize(f) ==
    CASE f.fmt = "H" -> 2
      [] f.fmt = "B" -> 1
      [] f.fmt = "I" -> 4
      [] f.fmt = "s" -> f.n

\* struct.unpack_from, reading the 16-bit field high byte first.
UnpackFromBigEndian(f, data, at) ==
    CASE f.fmt = "H" -> 256 * data[at + 1] + data[at + 2]
      [] f.fmt = "B" -> U8(Bytes(data), at)
      [] f.fmt = "I" -> U32(Bytes(data), at)
      [] f.fmt = "s" -> Slice(Bytes(data), at, at + f.n)

\* struct.unpack_from("<" + fmt, data, at)[0]
UnpackFrom(f, data, at) ==
    CASE f.fmt = "H" -> U16(Bytes(data), at)
      [] f.fmt = "B" -> U8(Bytes(data), at)
      [] f.fmt = "I" -> U32(Bytes(data), at)
      [] f.fmt = "s" -> Slice(Bytes(data), at, at + f.n)

\* The test of token_fit_unpack with < in place of <=.
FieldFitsStrict(at, sz, data) == at + sz < Len(data)

\* at + sz <= len(data)
FieldFits(at, sz, data) == at + sz <= Len(data)

\* The loop of token_fit_unpack over the fields from index k on.
RECURSIVE token_fit_loop(_, _, _, _, _)
token_fit_loop(data, fields, k, at, out) ==
    IF k > Len(fields) THEN [out |-> out, at |-> at]
    ELSE LET f == fields[k]
             sz == Calcsize(f)
         IN  IF FieldFits(at, sz, data)
             THEN token_fit_loop(data, fields, k + 1, at + sz,
                                 out @@ (f.name :> UnpackFrom(f, data, at)))
             ELSE token_fit_loop(data, fields, k + 1, at,
                                 out @@ (f.name :> f.default))

\* token_fit_unpack(data, fields): the dictionary, with "_used" and "_extra".
token_fit_unpack(data, fields) ==
    LET r == token_fit_loop(data, fields, 1, 0, <<>>)
    IN  r.out @@ ("_used" :> r.at) @@ ("_extra" :> Slice(Bytes(data), r.at, Len(data)))

\* struct.pack("<" + fmt, v): the bytes that encode value v of field f.
PackField(f, v) ==
    CASE f.fmt = "H" -> << v % 256, v \div 256 >>
      [] f.fmt = "B" -> << v >>
      [] f.fmt = "I" -> << v.lo % 256, v.lo \div 256, v.hi % 256, v.hi \div 256 >>
      [] f.fmt = "s" -> [i \in 1..f.n |-> IF i <= Len(v) THEN v[i] ELSE 0]

\* The encoding of a record with the full schema, fields from index k on.
RECURSIVE Pack(_, _, _)
Pack(fields, rec, k) ==
    IF k > Len(fields) THEN <<>>
    ELSE PackField(fields[k], rec[fields[k].name]) \o Pack(fields, rec, k + 1)

\* The byte offset at which field k of the schema starts in a full encoding.
RECURSIVE FieldStart(_, _)
FieldStart(fields, k) ==
    IF k = 1 THEN 0 ELSE FieldStart(fields, k - 1) + Calcsize(fields[k - 1])

\* The length of a full encoding of the schema.
FullSize(fields) == FieldStart(fields, Len(fields)) + Calcsize(fields[Len(fields)])

\* Number of the records tried (seeds 0..MaxSeed).
MaxSeed == 3

\* The value of field number j in the record of a seed: seed 0 sets every bit,
\* the others spread distinct non-default values over the fields.
FieldValue(f, j, seed) ==
    CASE f.fmt = "H" -> IF seed = 0 THEN 65535 ELSE (seed * 4099 + j * 263 + 1) % 65536
      [] f.fmt = "B" -> IF seed = 0 THEN 255 ELSE (seed * 37 + j * 11 + 1) % 256
      [] f.fmt = "I" -> IF seed = 0 THEN [lo |-> 65535, hi |-> 65535]
                        ELSE [lo |-> (seed * 4099 + j * 263 + 7) % 65536,
                              hi |-> (seed * 8191 + j + 32768) % 65536]
      [] f.fmt = "s" -> [i \in 1..f.n |->
                            IF seed = 0 THEN 255 ELSE (seed * 37 + j * 11 + i) % 256]

RecordOf(fields, seed) ==
    [name \in {fields[j].name : j \in 1..Len(fields)} |->
        LET j == CHOOSE j \in 1..Len(fields) : fields[j].name = name
        IN  FieldValue(fields[j], j, seed)]

\* The inputs: a prefix, of every length, of the full encoding of a record.
InitUnpack ==
    /\ pc = "call"
    /\ \E seed \in 0..MaxSeed, n \in 0..FullSize(CtyinfoFields) :
         LET rec == RecordOf(CtyinfoFields, seed)
         IN  arg = [rec |-> rec, data |-> SubSeq(Pack(CtyinfoFields, rec, 1), 1, n)]
    /\ ret = NoRet
    /\ warnings = <<>>
    /\ WalkIdle

\* The call token_fit_unpack(data, fields) of decode_ctyinfo.
TokenFitUnpack ==
    /\ pc = "call"
    /\ ret' = [kind |-> "dict", val |-> token_fit_unpack(arg.data, CtyinfoFields)]
    /\ pc' = "done"
    /\ UNCHANGED <<arg, warnings, walk>>

NextUnpack == TokenFitUnpack

SpecUnpack == InitUnpack /\ [][NextUnpack]_vars

FieldIndexes == 1..Len(CtyinfoFields)

\* C4: decoding the full 38-byte encoding of a record gives every field its
\* value back, uses all the bytes and leaves no extra bytes.
C4_RoundTrip ==
    /\ FullSize(CtyinfoFields) = 38
    /\ (pc = "done" /\ Len(arg.data) = FullSize(CtyinfoFields)) =>
          /\ \A j \in FieldIndexes :
                ret.val[CtyinfoFields[j].name] = arg.rec[CtyinfoFields[j].name]
          /\ ret.val["_used"] = Len(arg.data)
          /\ ret.val["_extra"] = <<>>

\* C4: a full encoding whose fields all differ from their defaults was decoded.
C4_Witness ==
    /\ pc = "done"
    /\ Len(arg.data) = 38
    /\ ret.val["country_id"] = 4363
    /\ ret.val["reserved"] # <<>>

\* C5: on every prefix of a full encoding, a field that lies wholly inside the
\* prefix gets its value and every other field gets its default.
C5_PrefixFieldsOrDefaults ==
    pc = "done" =>
        \A j \in FieldIndexes :
            LET f == CtyinfoFields[j]
            IN  ret.val[f.name] =
                    IF FieldStart(CtyinfoFields, j) + Calcsize(f) <= Len(arg.data)
                    THEN arg.rec[f.name] ELSE f.default

\* The prefix lengths that end at a field boundary of the schema.
FieldBoundaries ==
    {0} \cup {FieldStart(CtyinfoFields, j) + Calcsize(CtyinfoFields[j]) : j \in FieldIndexes}

\* C6 as stated: every prefix of a full encoding leaves no extra bytes.
C6_PrefixNoExtra ==
    pc = "done" => ret.val["_extra"] = <<>>

\* C6 amended: a prefix that ends at a field boundary leaves no extra bytes
\* and is used whole.
C6_BoundaryPrefixNoExtra ==
    (pc = "done" /\ Len(arg.data) \in FieldBoundaries) =>
        /\ ret.val["_extra"] = <<>>
        /\ ret.val["_used"] = Len(arg.data)

\* C6: the 11-byte prefix, which ends with currency_symbol, was decoded.
C6_Witness ==
    /\ pc = "done"
    /\ Len(arg.data) = 11
    /\ ret.val["currency_symbol"] = arg.rec["currency_symbol"]
    /\ ret.val["_used"] = 11

---------------------------------------------------------------------------
(* parse_tagged *)

\* The magic strings of the format, as character codes.
COUNTRY == <<67, 79, 85, 78, 84, 82, 89>>
CTYINFO == <<67, 84, 89, 73, 78, 70, 79>>
UCASE == <<85, 67, 65, 83, 69>>
LCASE == <<76, 67, 65, 83, 69>>
FUCASE == <<70, 85, 67, 65, 83, 69>>
FCHAR == <<70, 67, 72, 65, 82>>
COLLATE == <<67, 79, 76, 76, 65, 84, 69>>
DBCS == <<68, 66, 67, 83>>
CCTORC == <<67, 67, 84, 79, 82, 67>>
ARAMODE == <<65, 82, 65, 77, 79, 68, 69>>
YESNO == <<89, 69, 83, 78, 79>>

\* An Optional value: <<>> is None, <<v>> is the value v.
Some(v) == <<v>>

\* The Tagged dataclass.
Tagged(offset, tag, magic_raw, magic, size, payload, dbcs_dummy_word) ==
    [offset |-> offset, tag |-> tag, magic_raw |-> magic_raw, magic |-> magic,
     size |-> size, payload |-> payload, dbcs_dummy_word |-> dbcs_dummy_word]

\* The payload of parse_tagged when the truncation is not reported.
tagged_payload_silent(b, off, size) ==
    [payload |-> Slice(b, off + 10, off + 10 + size), warns |-> <<>>]

\* parse_tagged, the payload: the declared size, or what is left of the buffer
\* with a diagnostic.
tagged_payload(b, off, size) ==
    LET flen == FLen(b)
        end == off + 10 + size
    IN  IF end > flen
        THEN [payload |-> Slice(b, off + 10, flen), warns |-> <<"payload truncated">>]
        ELSE [payload |-> Slice(b, off + 10, end), warns |-> <<>>]

\* parse_tagged without the test of the 10 header bytes.
parse_tagged_unguarded(b, off) ==
    LET flen == FLen(b)
        tag == U8(b, off)
        magic_raw == Slice(b, off + 1, off + 8)
        size == U16(b, off + 8)
        magic_clean == DecodeAscii(RStrip(magic_raw, {32, 0}))
    IN  IF tag = StructError THEN [exc |-> "IndexError"]
        ELSE IF size = StructError THEN [exc |-> "struct.error"]
        ELSE LET pl == tagged_payload(b, off, size)
                 dbcs_dummy == IF magic_clean = DBCS /\ size = 0 /\ off + 12 <= flen
                               THEN Some(U16(b, off + 10)) ELSE <<>>
             IN  [exc |-> "none", warns |-> pl.warns,
                  tagged |-> Tagged(off, tag, magic_raw, magic_clean, size,
                                    pl.payload, dbcs_dummy)]

\* parse_tagged(buf, off, warnings, ctx): the Tagged block, the diagnostics it
\* appends, and in exc the exception a read outside the buffer raises.
parse_tagged(b, off) ==
    LET flen == FLen(b)
    IN  IF off + 10 > flen
        THEN [exc |-> "none", warns |-> <<"tagged header truncated">>,
              tagged |-> Tagged(off, 0, <<>>, <<>>, 0, <<>>, <<>>)]
        ELSE LET tag == U8(b, off)
                 magic_raw == Slice(b, off + 1, off + 8)
                 size == U16(b, off + 8)
                 magic_clean == DecodeAscii(RStrip(magic_raw, {32, 0}))
                 pl == tagged_payload(b, off, size)
                 dbcs_dummy == IF magic_clean = DBCS /\ size = 0 /\ off + 12 <= flen
                               THEN Some(U16(b, off + 10)) ELSE <<>>
             IN  IF tag = StructError THEN [exc |-> "IndexError"]
                 ELSE IF size = StructError \/ dbcs_dummy = Some(StructError)
                 THEN [exc |-> "struct.error"]
                 ELSE [exc |-> "none", warns |-> pl.warns,
                       tagged |-> Tagged(off, tag, magic_raw, magic_clean, size,
                                         pl.payload, dbcs_dummy)]

\* Bounds of the tagged blocks tried: declared sizes 0..MaxSize over a block
\* that carries MaxPayload bytes, read at offsets 0..MaxTagOff.
MaxSize == 4
MaxPayload == 3
MaxTagOff == 2

\* A magic as the 7 raw bytes of the file, padded with byte fill.
Magic7(m, fill) == [k \in 1..7 |-> IF k <= Len(m) THEN m[k] ELSE fill]

\* The 16-bit value v as the file holds it.
LE16(v) == << v % 256, v \div 256 >>

\* The bytes of a tagged block: tag, magic, size, payload.
TaggedBlock(tag, magic_raw, size, payload) == <<tag>> \o magic_raw \o LE16(size) \o payload

SamplePayload(n) == [k \in 1..n |-> (k * 41 + 48) % 256]

TaggedMagics == {Magic7(DBCS, 32), Magic7(YESNO, 0), Magic7(<<200, 66>>, 32)}

\* The inputs: one byte, then a tagged block, cut at every length; the block
\* is read at its start, before it and after it.
InitTagged ==
    /\ pc = "call"
    /\ \E m \in TaggedMagics, size \in 0..MaxSize, off \in 0..MaxTagOff :
         LET full == <<7>> \o TaggedBlock(255, m, size, SamplePayload(MaxPayload))
         IN  \E n \in 0..Len(full) :
                arg = [buf |-> Bytes(SubSeq(full, 1, n)), off |-> off]
    /\ ret = NoRet
    /\ warnings = <<>>
    /\ WalkIdle

\* The call parse_tagged(buf, off, warnings, ctx).
ParseTagged ==
    /\ pc = "call"
    /\ \E r \in {parse_tagged(arg.buf, arg.off)} :
           IF r.exc # "none"
           THEN /\ ret' = [kind |-> r.exc]
                /\ UNCHANGED warnings
           ELSE /\ ret' = [kind |-> "Tagged", val |-> r.tagged]
                /\ warnings' = warnings \o r.warns
    /\ pc' = "done"
    /\ UNCHANGED <<arg, walk>>

NextTagged == ParseTagged

SpecTagged == InitTagged /\ [][NextTagged]_vars

\* x occurs in the sequence s.
InSeq(x, s) == \E k \in 1..Len(s) : s[k] = x

\* C7: parse_tagged returns without an exception; when the 10 header bytes
\* are there, the payload is the min(declared size, len - off - 10) bytes that
\* follow the header, and a declared size larger than what is left is
\* reported; when they are not, nothing is read.
C7_TaggedPayloadInBounds ==
    pc = "done" =>
        /\ ret.kind = "Tagged"
        /\ LET flen == FLen(arg.buf)
               avail == flen - arg.off - 10
               declared == U16(arg.buf, arg.off + 8)
               payload == ret.val.payload
           IN  IF avail >= 0
               THEN /\ ret.val.size = declared
                    /\ Len(payload) = Min(declared, avail)
                    /\ \A k \in 1..Len(payload) :
                          payload[k] = ByteAt(arg.buf, arg.off + 10 + k - 1)
                    /\ declared > avail =>
                          /\ InSeq("payload truncated", warnings)
                          /\ Len(payload) = avail
               ELSE payload = <<>>

\* C7: a block that declares 4 payload bytes with 2 left in the buffer was read.
C7_Witness ==
    /\ pc = "done"
    /\ ret.kind = "Tagged"
    /\ ret.val.size = 4
    /\ Len(ret.val.payload) = 2
    /\ FLen(arg.buf) = arg.off + 12
    /\ warnings = <<"payload truncated">>

---------------------------------------------------------------------------
(* compare_country_sys *)

\* filter_entries(entries, country, codepage); a filter is <<>> (None) or <<v>>.
filter_entries(es, country, codepage) ==
    LET f1 == IF country # <<>> THEN SelectSeq(es, LAMBDA e : e.country = country[1]) ELSE es
    IN  IF codepage # <<>> THEN SelectSeq(f1, LAMBDA e : e.codepage = codepage[1]) ELSE f1

\* The keys of {(e.country, e.codepage): e for e in entries}.
EntryKeys(es) == {<<es[k].country, es[k].codepage>> : k \in 1..Len(es)}

\* What indexing a dictionary with a key it lacks raises.
KeyError == [exc |-> "KeyError"]

\* map[key] of the dictionary built from entries: the last entry with the key.
EntryOf(es, key) ==
    LET at == {k \in 1..Len(es) : <<es[k].country, es[k].codepage>> = key}
    IN  IF at = {} THEN KeyError ELSE es[CHOOSE k \in at : \A j \in at : j <= k]

\* {s.subfunc_id: s for s in entry.subfuncs if s.subfunc_id != 0}
SfIds(e) == {e.subfuncs[k].subfunc_id : k \in 1..Len(e.subfuncs)} \ {0}

SfOf(e, id) ==
    LET at == {k \in 1..Len(e.subfuncs) : e.subfuncs[k].subfunc_id = id}
    IN  IF at = {} THEN KeyError ELSE e.subfuncs[CHOOSE k \in at : \A j \in at : j <= k]

\* The order of Python tuples (country, codepage).
KeyLess(a, b) == a[1] < b[1] \/ (a[1] = b[1] /\ a[2] < b[2])

\* sorted(keys), for a set of (country, codepage) tuples.
RECURSIVE SortedKeys(_)
SortedKeys(ks) ==
    IF ks = {} THEN <<>>
    ELSE LET m == CHOOSE k \in ks : \A o \in ks \ {k} : KeyLess(k, o)
         IN  <<m>> \o SortedKeys(ks \ {m})

\* sorted(ns), for a set of integers.
RECURSIVE SortedInts(_)
SortedInts(ns) ==
    IF ns = {} THEN <<>>
    ELSE LET m == CHOOSE n \in ns : \A o \in ns : n <= o
         IN  <<m>> \o SortedInts(ns \ {m})

\* keys_a - keys_b computed as keys_a alone.
KeysOnlyInAll(ka, kb) == ka

\* keys_a - keys_b
KeysOnlyIn(ka, kb) == ka \ kb

\* The fields compare_ctyinfo compares.
CompareFields == <<"date_format", "date_format_name", "currency_symbol",
    "thousands_sep", "decimal_sep", "date_sep", "time_sep", "currency_format",
    "currency_decimals", "time_format", "time_format_name", "data_sep">>

\* a.get(field, "<missing>")
DictGet(d, field, default) == IF field \in DOMAIN d THEN d[field] ELSE default

\* compare_ctyinfo(a, b): the fields whose values differ, in order.
compare_ctyinfo(a, b) ==
    SelectSeq(CompareFields,
              LAMBDA f : DictGet(a, f, "<missing>") # DictGet(b, f, "<missing>"))

\* The rows shown for the lines: for each line its number, the positions of
\* its first and last byte, the bytes of both payloads and the positions that
\* are marked as differing.
db_rows(pa, pb, lines, diff_positions) ==
    [k \in 1..Len(lines) |->
        LET start == lines[k] * 8
            end == Min(start + 8, Len(pa))
        IN  [line |-> lines[k], first |-> start, last |-> end - 1,
             a |-> SubSeq(pa, start + 1, end), b |-> SubSeq(pb, start + 1, end),
             marked |-> {p \in start..(end - 1) : p \in diff_positions}]]

\* compare_table_data with the rows shown whenever at most two lines differ,
\* adjacent or not.
compare_table_data_any_two_lines(tag_a, tag_b) ==
    LET pa == tag_a.payload
        pb == tag_b.payload
        diff_positions == {k \in 0..(Len(pa) - 1) : pa[k + 1] # pb[k + 1]}
        diff_lines == {k \div 8 : k \in diff_positions}
        sorted_lines == SortedInts(diff_lines)
    IN  IF Len(pa) # Len(pb)
        THEN Some([kind |-> "sizes differ", a |-> Len(pa), b |-> Len(pb)])
        ELSE IF diff_positions = {} THEN <<>>
        ELSE IF Cardinality(diff_lines) <= 2
        THEN Some([kind |-> "rows", count |-> Cardinality(diff_positions),
                   lines |-> sorted_lines,
                   rows |-> db_rows(pa, pb, sorted_lines, diff_positions)])
        ELSE Some([kind |-> "count", count |-> Cardinality(diff_positions)])

\* compare_table_data without the return of None when no byte differs.
compare_table_data_reports_equal(tag_a, tag_b) ==
    LET pa == tag_a.payload
        pb == tag_b.payload
        diff_positions == {k \in 0..(Len(pa) - 1) : pa[k + 1] # pb[k + 1]}
    IN  IF Len(pa) # Len(pb)
        THEN Some([kind |-> "sizes differ", a |-> Len(pa), b |-> Len(pb)])
        ELSE Some([kind |-> "count", count |-> Cardinality(diff_positions)])

\* compare_table_data(tag_a, tag_b): <<>> (None) when the payloads are equal,
\* else the summary returned: the sizes, or the rows shown, or the count.
compare_table_data(tag_a, tag_b) ==
    LET pa == tag_a.payload
        pb == tag_b.payload
        diff_positions == {k \in 0..(Len(pa) - 1) : pa[k + 1] # pb[k + 1]}
        diff_lines == {k \div 8 : k \in diff_positions}
        sorted_lines == SortedInts(diff_lines)
    IN  IF Len(pa) # Len(pb)
        THEN Some([kind |-> "sizes differ", a |-> Len(pa), b |-> Len(pb)])
        ELSE IF diff_positions = {} THEN <<>>
        ELSE IF /\ Cardinality(diff_lines) <= 2
                /\ \/ Len(sorted_lines) = 1
                   \/ (Len(sorted_lines) = 2 /\ sorted_lines[2] - sorted_lines[1] = 1)
        THEN Some([kind |-> "rows", count |-> Cardinality(diff_positions),
                   lines |-> sorted_lines,
                   rows |-> db_rows(pa, pb, sorted_lines, diff_positions)])
        ELSE Some([kind |-> "count", count |-> Cardinality(diff_positions)])

\* The data difference compare_country_sys records for a shared subfunction:
\* <<>> when it records none.
data_diff(sf_id, sf_a, sf_b) ==
    IF sf_id = 1 /\ sf_a.decoded # <<>> /\ sf_b.decoded # <<>>
    THEN LET d == compare_ctyinfo(sf_a.decoded[1], sf_b.decoded[1])
         IN  IF d # <<>> THEN Some([sf_id |-> sf_id, name |-> "CTYINFO", diffs |-> d]) ELSE <<>>
    ELSE IF sf_id \in {2, 3, 4, 6} /\ sf_a.tagged # <<>> /\ sf_b.tagged # <<>>
    THEN LET d == compare_table_data(sf_a.tagged[1], sf_b.tagged[1])
         IN  IF d # <<>> THEN Some([sf_id |-> sf_id, name |-> "table", diffs |-> d]) ELSE <<>>
    ELSE IF sf_id = 7 /\ sf_a.decoded # <<>> /\ sf_b.decoded # <<>>
    THEN IF DictGet(sf_a.decoded[1], "ranges", <<>>) # DictGet(sf_b.decoded[1], "ranges", <<>>)
         THEN Some([sf_id |-> sf_id, name |-> "DBCS", diffs |-> <<"ranges">>]) ELSE <<>>
    ELSE IF sf_id = 35 /\ sf_a.decoded # <<>> /\ sf_b.decoded # <<>>
    THEN LET d == SelectSeq(<<"yes", "no">>,
                     LAMBDA f : DictGet(sf_a.decoded[1], f, <<>>) # DictGet(sf_b.decoded[1], f, <<>>))
         IN  IF d # <<>> THEN Some([sf_id |-> sf_id, name |-> "YESNO", diffs |-> d]) ELSE <<>>
    ELSE <<>>

\* The data differences of the shared subfunctions, in the order of ids.
RECURSIVE data_diffs(_, _, _)
data_diffs(ids, entry_a, entry_b) ==
    IF ids = <<>> THEN <<>>
    ELSE data_diff(ids[1], SfOf(entry_a, ids[1]), SfOf(entry_b, ids[1]))
         \o data_diffs(Tail(ids), entry_a, entry_b)

\* The section compare_country_sys prints for a shared key: <<>> when the two
\* entries do not differ.
entry_section(key, entry_a, entry_b) ==
    LET sf_ids_a == SfIds(entry_a)
        sf_ids_b == SfIds(entry_b)
        only_a_sf == sf_ids_a \ sf_ids_b
        only_b_sf == sf_ids_b \ sf_ids_a
        shared_sf == sf_ids_a \cap sf_ids_b
        dd == data_diffs(SortedInts(shared_sf), entry_a, entry_b)
        has_diffs == only_a_sf # {} \/ only_b_sf # {} \/ dd # <<>>
    IN  IF has_diffs
        THEN <<[kind |-> "entry", key |-> key, only_a_sf |-> only_a_sf,
                only_b_sf |-> only_b_sf, data_diffs |-> dd]>>
        ELSE <<>>

\* The loop over sorted(cps_a & cps_b) of one country.
RECURSIVE codepage_sections(_, _, _, _, _)
codepage_sections(country, cps, shared, es_a, es_b) ==
    IF cps = <<>> THEN <<>>
    ELSE LET key == <<country, cps[1]>>
         IN  (IF key \notin shared THEN <<>>
              ELSE entry_section(key, EntryOf(es_a, key), EntryOf(es_b, key)))
             \o codepage_sections(country, Tail(cps), shared, es_a, es_b)

\* The loop over all_countries.
RECURSIVE country_sections(_, _, _, _, _, _)
country_sections(countries, keys_a, keys_b, shared, es_a, es_b) ==
    IF countries = <<>> THEN <<>>
    ELSE LET c == countries[1]
             cps_a == {k[2] : k \in {q \in keys_a : q[1] = c}}
             cps_b == {k[2] : k \in {q \in keys_b : q[1] = c}}
             head == IF cps_a # cps_b
                     THEN <<[kind |-> "country", country |-> c,
                             only_a_cps |-> cps_a \ cps_b, only_b_cps |-> cps_b \ cps_a,
                             shared_cps |-> cps_a \cap cps_b]>>
                     ELSE <<>>
         IN  head \o codepage_sections(c, SortedInts(cps_a \cap cps_b), shared, es_a, es_b)
             \o country_sections(Tail(countries), keys_a, keys_b, shared, es_a, es_b)

\* compare_country_sys(doc_a, doc_b, file_a, file_b, country, codepage): the
\* three key sets it computes and, in out, the sections it prints in order.
compare_country_sys(doc_a, doc_b, country, codepage) ==
    LET entries_a == filter_entries(doc_a.entries, country, codepage)
        entries_b == filter_entries(doc_b.entries, country, codepage)
        keys_a == EntryKeys(entries_a)
        keys_b == EntryKeys(entries_b)
        only_a == KeysOnlyIn(keys_a, keys_b)
        only_b == KeysOnlyIn(keys_b, keys_a)
        shared == keys_a \cap keys_b
        head == (IF only_a # {} THEN <<[kind |-> "only in A", keys |-> SortedKeys(only_a)]>> ELSE <<>>)
                \o (IF only_b # {} THEN <<[kind |-> "only in B", keys |-> SortedKeys(only_b)]>> ELSE <<>>)
        all_countries == SortedInts({k[1] : k \in keys_a \cup keys_b})
        body == country_sections(all_countries, keys_a, keys_b, shared, entries_a, entries_b)
        tail == IF doc_a.warnings # <<>> \/ doc_b.warnings # <<>>
                THEN <<[kind |-> "warnings", a |-> doc_a.warnings, b |-> doc_b.warnings]>>
                ELSE <<>>
    IN  [only_a |-> only_a, only_b |-> only_b, shared |-> shared,
         out |-> IF shared = {}
                 THEN head \o <<[kind |-> "no shared entries"]>>
                 ELSE head \o <<[kind |-> "comparing", n |-> Cardinality(shared)]>>
                      \o body \o tail]

\* The dataclasses SubfuncEntry, CountryEntry and ParsedCountrySys.
SubfuncEntry(offset, entry_len, subfunc_id, data_ptr, tagged, decoded) ==
    [offset |-> offset, entry_len |-> entry_len, subfunc_id |-> subfunc_id,
     data_ptr |-> data_ptr, tagged |-> tagged, decoded |-> decoded]

CountryEntry(offset, header_len, country, codepage, reserved1, reserved2, subfunc_header_ptr, sfs) ==
    [offset |-> offset, header_len |-> header_len, country |-> country,
     codepage |-> codepage, reserved1 |-> reserved1, reserved2 |-> reserved2,
     subfunc_header_ptr |-> subfunc_header_ptr, subfuncs |-> sfs]

ParsedCountrySys(file_size, entry_table_count, pointer_info_type, entry_table_ptrs, es, ws) ==
    [file_size |-> file_size, entry_table_count |-> entry_table_count,
     pointer_info_type |-> pointer_info_type, entry_table_ptrs |-> entry_table_ptrs,
     entries |-> es, warnings |-> ws]

\* The entries the compared documents are made of: two with the key (1, 437)
\* whose UCASE tables differ in one byte, one with no subfunction, two with
\* the key (44, 437) whose CTYINFO and YESNO records differ only in what the
\* comparison does not look at (the country identifier, the bytes after the
\* two YESNO fields), one with a placeholder record (identifier 0).
NullPtr == FarPtr(decode_far_ptr(U32Of(0), 0))

SampleTable(n, changed) ==
    Tagged(64, 255, Magic7(UCASE, 32), UCASE, n,
           [k \in 1..n |-> IF k = changed THEN 0 ELSE 128 + k], <<>>)

\* The mapping decode_ctyinfo returns for a 6-byte CTYINFO payload that holds
\* the country identifier, codepage 437 and date format 1.
SampleCtyinfo(country_id, extra_len) ==
    LET unspecified == <<60, 117, 110, 115, 112, 101, 99, 105, 102, 105, 101, 100, 62>>
    IN  [country_id |-> country_id, codepage |-> 437, date_format |-> 1,
         date_format_name |-> "DMY", currency_symbol |-> unspecified,
         thousands_sep |-> unspecified, decimal_sep |-> unspecified,
         date_sep |-> unspecified, time_sep |-> unspecified,
         currency_format |-> 0, currency_decimals |-> 0, time_format |-> 0,
         time_format_name |-> "12-hour", case_map_ptr_raw |-> U32Of(0),
         data_sep |-> unspecified, reserved_len |-> 0, extra_len |-> extra_len]

SampleEntries == <<
    CountryEntry(25, 12, 1, 437, 0, 0, NullPtr,
        <<SubfuncEntry(41, 6, 2, NullPtr, Some(SampleTable(16, 0)), <<>>)>>),
    CountryEntry(39, 12, 1, 437, 0, 0, NullPtr,
        <<SubfuncEntry(41, 6, 2, NullPtr, Some(SampleTable(16, 3)), <<>>)>>),
    CountryEntry(53, 12, 1, 850, 0, 0, NullPtr, <<>>),
    CountryEntry(67, 12, 44, 437, 0, 0, NullPtr,
        <<SubfuncEntry(41, 6, 1, NullPtr,
             Some(Tagged(90, 255, Magic7(CTYINFO, 32), CTYINFO, 6, <<44, 0, 181, 1, 1, 0>>, <<>>)),
             Some(SampleCtyinfo(44, 0))),
          SubfuncEntry(49, 6, 35, NullPtr,
             Some(Tagged(80, 255, Magic7(YESNO, 0), YESNO, 4, <<89, 0, 78, 0>>, <<>>)),
             Some([yes |-> <<89>>, no |-> <<78>>, raw_hex |-> <<89, 0, 78, 0>>]))>>),
    CountryEntry(81, 12, 44, 850, 0, 0, NullPtr,
        <<SubfuncEntry(41, 2, 0, NullPtr, <<>>, <<>>)>>),
    CountryEntry(95, 12, 44, 437, 0, 0, NullPtr,
        <<SubfuncEntry(41, 6, 1, NullPtr,
             Some(Tagged(90, 255, Magic7(CTYINFO, 32), CTYINFO, 6, <<45, 0, 181, 1, 1, 0>>, <<>>)),
             Some(SampleCtyinfo(45, 0))),
          SubfuncEntry(49, 6, 35, NullPtr,
             Some(Tagged(80, 255, Magic7(YESNO, 0), YESNO, 5, <<89, 0, 78, 0, 7>>, <<>>)),
             Some([yes |-> <<89>>, no |-> <<78>>, raw_hex |-> <<89, 0, 78, 0, 7>>]))>>) >>

\* The entries of SampleEntries whose index is in the set picked, in order.
PickEntries(picked) == SelectSeq(SampleEntries, LAMBDA e : \E k \in picked : SampleEntries[k] = e)

SampleWarnings == {<<>>, <<"pointer array truncated">>}

InitCompare ==
    /\ pc = "call"
    /\ \E pa \in SUBSET (1..Len(SampleEntries)), pb \in SUBSET (1..Len(SampleEntries)),
          wa \in SampleWarnings, country \in {<<>>, <<1>>}, codepage \in {<<>>, <<850>>} :
         arg = [doc_a |-> ParsedCountrySys(128, 1, 1, <<>>, PickEntries(pa), wa),
                doc_b |-> ParsedCountrySys(128, 1, 1, <<>>, PickEntries(pb), <<>>),
                country |-> country, codepage |-> codepage]
    /\ ret = NoRet
    /\ warnings = <<>>
    /\ WalkIdle

\* The call compare_country_sys(doc_a, doc_b, file_a, file_b, country, codepage).
CompareCountrySys ==
    /\ pc = "call"
    /\ ret' = [kind |-> "None",
               val |-> compare_country_sys(arg.doc_a, arg.doc_b, arg.country, arg.codepage)]
    /\ pc' = "done"
    /\ UNCHANGED <<arg, warnings, walk>>

NextCompare == CompareCountrySys

SpecCompare == InitCompare /\ [][NextCompare]_vars

\* The (country, codepage) keys of a document that pass the filter.
FilteredKeys(doc, country, codepage) ==
    {k \in EntryKeys(doc.entries) :
        /\ country # <<>> => k[1] = country[1]
        /\ codepage # <<>> => k[2] = codepage[1]}

\* C8: the comparison returns; 'only in A', 'only in B' and 'shared' are
\* pairwise disjoint and cover the filtered keys of both documents; a key of A
\* alone is in 'only in A' and in neither other set; and with the documents
\* swapped 'only in A' and 'only in B' trade places and 'shared' stays.
C8_KeyClassification ==
    pc = "done" =>
        LET r == ret.val
            keys_a == FilteredKeys(arg.doc_a, arg.country, arg.codepage)
            keys_b == FilteredKeys(arg.doc_b, arg.country, arg.codepage)
            swapped == compare_country_sys(arg.doc_b, arg.doc_a, arg.country, arg.codepage)
        IN  /\ ret.kind = "None"
            /\ r.only_a \cap r.only_b = {}
            /\ r.only_a \cap r.shared = {}
            /\ r.only_b \cap r.shared = {}
            /\ r.only_a \cup r.only_b \cup r.shared = keys_a \cup keys_b
            /\ \A k \in keys_a \ keys_b : k \in r.only_a
            /\ \A k \in keys_b \ keys_a : k \in r.only_b
            /\ swapped.only_a = r.only_b
            /\ swapped.only_b = r.only_a
            /\ swapped.shared = r.shared
            /\ r.only_a # {} => r.out[1] = [kind |-> "only in A", keys |-> SortedKeys(r.only_a)]

\* C8: two documents were compared of which A alone has (44, 850) and B has a
\* key A lacks, with a shared key besides.
C8_Witness ==
    /\ pc = "done"
    /\ <<44, 850>> \in ret.val.only_a
    /\ ret.val.only_b # {}
    /\ ret.val.shared # {}

---------------------------------------------------------------------------
(* The subfunction decoders and validate_magic_and_tag *)

HexDigits == <<48, 49, 50, 51, 52, 53, 54, 55, 56, 57, 65, 66, 67, 68, 69, 70>>

\* f"{c:02X}"
Hex2(c) == <<HexDigits[(c \div 16) + 1], HexDigits[(c % 16) + 1]>>

\* b.split(b"\x00", 1)[0]
UpToNul(s) ==
    Once({LET nuls == {k \in 1..Len(v) : v[k] = 0}
          IN  IF nuls = {} THEN v
              ELSE SubSeq(v, 1, (CHOOSE k \in nuls : \A j \in nuls : k <= j) - 1) :
          v \in {s}})

\* The characters _asciiz gives for the bytes s: printable ones as they are,
\* the others as \xHH.
RECURSIVE Escaped(_)
Escaped(s) ==
    IF s = <<>> THEN <<>>
    ELSE (IF 32 <= s[1] /\ s[1] < 127 THEN <<s[1]>> ELSE <<92, 120>> \o Hex2(s[1]))
         \o Escaped(Tail(s))

\* _asciiz(b); the text of an empty string is "<unspecified>".
Asciiz(s) ==
    LET out == Escaped(UpToNul(s))
    IN  IF out = <<>>
        THEN <<60, 117, 110, 115, 112, 101, 99, 105, 102, 105, 101, 100, 62>>
        ELSE out

\* _hex(b): "0xHH" for each byte, joined by spaces.
RECURSIVE HexList(_)
HexList(s) ==
    IF s = <<>> THEN <<>>
    ELSE <<48, 120>> \o Hex2(s[1]) \o (IF Len(s) > 1 THEN <<32>> ELSE <<>>) \o HexList(Tail(s))

\* DATE_FORMAT_NAMES.get(code, "unknown") and TIME_FORMAT_NAMES.get(code, "unknown")
DateFormatName(code) ==
    CASE code = 0 -> "MDY" [] code = 1 -> "DMY" [] code = 2 -> "YMD" [] OTHER -> "unknown"
TimeFormatName(code) ==
    CASE code = 0 -> "12-hour" [] code = 1 -> "24-hour" [] OTHER -> "unknown"

\* decode_ctyinfo(tagged, country)
decode_ctyinfo(tagged) ==
    Once({ [country_id |-> t["country_id"], codepage |-> t["codepage"],
         date_format |-> t["date_format"],
         date_format_name |-> DateFormatName(t["date_format"]),
         currency_symbol |-> Asciiz(t["currency_symbol"]),
         thousands_sep |-> Asciiz(t["thousands_sep"]),
         decimal_sep |-> Asciiz(t["decimal_sep"]),
         date_sep |-> Asciiz(t["date_sep"]), time_sep |-> Asciiz(t["time_sep"]),
         currency_format |-> t["currency_format"],
         currency_decimals |-> t["currency_decimals"],
         time_format |-> t["time_format"],
         time_format_name |-> TimeFormatName(t["time_format"]),
         case_map_ptr_raw |-> t["case_map_ptr_raw"],
         data_sep |-> Asciiz(t["data_sep"]),
         reserved_len |-> Len(t["reserved"]),
         extra_len |-> Len(t["_extra"])]
        : t \in {token_fit_unpack(tagged.payload, CtyinfoFields)} })

\* decode_fchar(tagged)
decode_fchar(tagged) ==
    LET p == tagged.payload
    IN  IF Len(p) < 8 THEN [raw_hex |-> HexList(p)]
        ELSE LET nterm == Min(p[8], Len(p) - 8)
             IN  [characteristics |-> p[1], lowest_char |-> p[2], highest_char |-> p[3],
                  excluded_first |-> p[5], excluded_last |-> p[6],
                  num_terminators |-> nterm,
                  terminators_hex |-> HexList(Slice(Bytes(p), 8, 8 + nterm))]

\* decode_yesno that never adds the mis-encoding note.
decode_yesno_unflagged(tagged) ==
    LET p == tagged.payload
    IN  [yes |-> IF Len(p) >= 2 THEN Asciiz(Slice(Bytes(p), 0, 2)) ELSE <<>>,
         no |-> IF Len(p) >= 4 THEN Asciiz(Slice(Bytes(p), 2, 4)) ELSE <<>>,
         raw_hex |-> HexList(p)]

\* decode_yesno(tagged): "yes" carries the mis-encoding note when the second
\* byte is the digit 0.
decode_yesno(tagged) ==
    LET p == tagged.payload
        yes0 == IF Len(p) >= 2 THEN Asciiz(Slice(Bytes(p), 0, 2)) ELSE <<>>
        note == IF Len(p) >= 2 /\ p[2] = 48
                THEN <<32, 61, 61, 62, 32, p[1]>> \o
                     <<32, 102, 111, 108, 108, 111, 119, 101, 100, 32, 98, 121, 32,
                       122, 101, 114, 111, 32, 109, 105, 115, 45, 101, 110, 99, 111,
                       100, 101, 100, 32, 97, 115, 32, 39, 48, 39, 32, 61, 61, 32,
                       48, 120, 51, 48>>
                ELSE <<>>
        no == IF Len(p) >= 4 THEN Asciiz(Slice(Bytes(p), 2, 4)) ELSE <<>>
    IN  [yes |-> yes0 \o note, no |-> no, raw_hex |-> HexList(p)]

\* The loop of decode_dbcs from index i on.
RECURSIVE dbcs_ranges(_, _)
dbcs_ranges(p, i) ==
    IF i + 2 > Len(p) THEN <<>>
    ELSE IF p[i + 1] = 0 /\ p[i + 2] = 0 THEN <<>>
    ELSE << <<p[i + 1], p[i + 2]>> >> \o dbcs_ranges(p, i + 2)

\* decode_dbcs(tagged)
decode_dbcs(tagged) ==
    [ranges |-> dbcs_ranges(tagged.payload, 0),
     dbcs_dummy_word |-> tagged.dbcs_dummy_word,
     payload_len |-> Len(tagged.payload)]

\* ALLOWED_MAGICS.get(subfunc_id): {} when the identifier has no entry.
ALLOWED_MAGICS(subfunc_id) ==
    CASE subfunc_id = 1 -> {CTYINFO}
      [] subfunc_id = 2 -> {UCASE}
      [] subfunc_id = 3 -> {LCASE}
      [] subfunc_id = 4 -> {FUCASE, UCASE}
      [] subfunc_id = 5 -> {FCHAR}
      [] subfunc_id = 6 -> {COLLATE}
      [] subfunc_id = 7 -> {DBCS}
      [] subfunc_id = 20 -> {CCTORC}
      [] subfunc_id = 21 -> {ARAMODE}
      [] subfunc_id = 35 -> {YESNO}
      [] OTHER -> {}

\* validate_magic_and_tag that accepts every magic.
validate_magic_and_tag_any_magic(subfunc_id, tagged, is_strict) ==
    IF tagged.magic = ARAMODE
    THEN IF tagged.tag # 0
         THEN IF is_strict THEN [exc |-> "ValidationError", warns |-> <<>>]
              ELSE [exc |-> "none", warns |-> <<"ARAMODE: expected tag 0x00">>]
         ELSE [exc |-> "none", warns |-> <<>>]
    ELSE [exc |-> "none",
          warns |-> IF tagged.tag \notin {255, 0} THEN <<"tag unusual">> ELSE <<>>]

\* validate_magic_and_tag(subfunc_id, tagged, warnings, strict): the exception
\* raised, or the diagnostics appended.
validate_magic_and_tag(subfunc_id, tagged, is_strict) ==
    LET allowed == ALLOWED_MAGICS(subfunc_id)
        mismatch == allowed # {} /\ tagged.magic \notin allowed
        w1 == IF mismatch THEN <<"magic mismatch">> ELSE <<>>
    IN  IF mismatch /\ is_strict THEN [exc |-> "ValidationError", warns |-> <<>>]
        ELSE IF tagged.magic = ARAMODE
        THEN IF tagged.tag # 0
             THEN IF is_strict THEN [exc |-> "ValidationError", warns |-> <<>>]
                  ELSE [exc |-> "none", warns |-> w1 \o <<"ARAMODE: expected tag 0x00">>]
             ELSE [exc |-> "none", warns |-> w1]
        ELSE [exc |-> "none",
              warns |-> w1 \o (IF tagged.tag \notin {255, 0} THEN <<"tag unusual">> ELSE <<>>)]

\* The decoded mapping parse_country_sys stores for a record: <<>> when the
\* identifier and the magic select no decoder.
\* The decoder chosen by the magic alone, whatever the identifier.
decode_subfunc_by_magic(sf_id, tagged) ==
    IF tagged.magic = CTYINFO THEN Some(decode_ctyinfo(tagged))
    ELSE IF tagged.magic = FCHAR THEN Some(decode_fchar(tagged))
    ELSE IF tagged.magic = DBCS THEN Some(decode_dbcs(tagged))
    ELSE IF tagged.magic \in {YESNO, ARAMODE} THEN Some(decode_yesno(tagged))
    ELSE <<>>

decode_subfunc(sf_id, tagged) ==
    IF sf_id = 1 /\ tagged.magic = CTYINFO THEN Some(decode_ctyinfo(tagged))
    ELSE IF sf_id = 5 /\ tagged.magic = FCHAR THEN Some(decode_fchar(tagged))
    ELSE IF sf_id = 7 /\ tagged.magic = DBCS THEN Some(decode_dbcs(tagged))
    ELSE IF sf_id = 35 /\ tagged.magic \in {YESNO, ARAMODE} THEN Some(decode_yesno(tagged))
    ELSE <<>>

---------------------------------------------------------------------------
(* parse_country_sys *)

\* The header test of parse_country_sys with the length of the pointer-less
\* header (0x13) in place of 0x17.
header_invalid_short(b) ==
    \/ FLen(b) < 19
    \/ U8(b, 0) # 255
    \/ RStrip(Slice(b, 1, 8), {0}) # COUNTRY

\* The tests of parse_country_sys that raise ValidationError: the buffer is
\* shorter than 0x17, or the signature or the magic is wrong.
header_invalid(b) ==
    \/ FLen(b) < 23
    \/ U8(b, 0) # 255
    \/ RStrip(Slice(b, 1, 8), {0}) # COUNTRY

\* The diagnostics of the reserved-bytes test of the header.
reserved_check(b, is_strict) ==
    IF is_strict /\ Slice(b, 8, 16) # <<0, 0, 0, 0, 0, 0, 0, 0>>
    THEN <<"reserved bytes in file header are not all zero">>
    ELSE <<>>

\* One turn of the pointer loop, for index i.
read_pointer(b, i) ==
    LET base == 19
    IN  IF base + i * 4 + 4 > FLen(b)
        THEN [brk |-> TRUE, exc |-> "none", warns |-> <<"pointer array truncated">>]
        ELSE LET u32 == U32(b, base + i * 4)
             IN  IF u32.lo = StructError THEN [brk |-> TRUE, exc |-> "struct.error", warns |-> <<>>]
                 ELSE LET r == decode_far_ptr(u32, FLen(b))
                      IN  [brk |-> FALSE, exc |-> "none", warns |-> r.warns, ptr |-> FarPtr(r)]

\* The head of the loop over the entry tables, for the table at P: skipped
\* with a diagnostic when its count does not lie in the buffer.
read_table(b, P) ==
    IF P + 2 > FLen(b)
    THEN [skip |-> TRUE, exc |-> "none", warns |-> <<"entry table offset beyond EOF">>]
    ELSE LET n == U16(b, P)
         IN  IF n = StructError THEN [skip |-> TRUE, exc |-> "struct.error", warns |-> <<>>]
             ELSE [skip |-> FALSE, exc |-> "none", warns |-> <<>>, X |-> n]

\* One turn of the entry loop at cursor at that stops without a diagnostic
\* when the entry does not lie in the buffer.
read_entry_silent(b, at) ==
    LET flen == FLen(b)
    IN  IF at + 2 > flen
        THEN [brk |-> TRUE, exc |-> "none", warns |-> <<>>]
        ELSE
        LET header_len == U16(b, at)
            w0 == IF header_len = 0 THEN <<"entry header_len=0">> ELSE <<>>
        IN  IF header_len = StructError THEN [brk |-> TRUE, exc |-> "struct.error", warns |-> <<>>]
            ELSE IF at + 2 + header_len > flen
            THEN [brk |-> TRUE, exc |-> "none", warns |-> w0]
            ELSE
            LET q0 == decode_far_ptr(U32Of(0), flen)
                long == header_len >= 12
                country == IF long THEN U16(b, at + 2) ELSE 0
                codepage == IF long THEN U16(b, at + 4) ELSE 0
                reserved1 == IF long THEN U16(b, at + 6) ELSE 0
                reserved2 == IF long THEN U16(b, at + 8) ELSE 0
                u32q == IF long THEN U32(b, at + 10) ELSE U32Of(0)
            IN  IF StructError \in {country, codepage, reserved1, reserved2} \/ u32q.lo = StructError
                THEN [brk |-> TRUE, exc |-> "struct.error", warns |-> <<>>]
                ELSE
                LET q1 == decode_far_ptr(u32q, flen)
                    qptr == IF long THEN FarPtr(q1) ELSE FarPtr(q0)
                    w1 == IF long THEN q1.warns
                          ELSE <<"header_len < 12 (cannot parse fields)">>
                IN  [brk |-> FALSE, exc |-> "none", warns |-> w0 \o q0.warns \o w1,
                     entry |-> CountryEntry(at, header_len, country, codepage,
                                            reserved1, reserved2, qptr, <<>>)]

\* One turn of the entry loop at cursor at, up to the subfunction walk: the
\* entry with its fields and its pointer, or the break of the loop.
read_entry(b, at) ==
    LET flen == FLen(b)
    IN  IF at + 2 > flen
        THEN [brk |-> TRUE, exc |-> "none", warns |-> <<"entry truncated">>]
        ELSE
        LET header_len == U16(b, at)
            w0 == IF header_len = 0 THEN <<"entry header_len=0">> ELSE <<>>
        IN  IF header_len = StructError THEN [brk |-> TRUE, exc |-> "struct.error", warns |-> <<>>]
            ELSE IF at + 2 + header_len > flen
            THEN [brk |-> TRUE, exc |-> "none",
                  warns |-> w0 \o <<"entry header extends beyond EOF">>]
            ELSE
            LET q0 == decode_far_ptr(U32Of(0), flen)
                long == header_len >= 12
                country == IF long THEN U16(b, at + 2) ELSE 0
                codepage == IF long THEN U16(b, at + 4) ELSE 0
                reserved1 == IF long THEN U16(b, at + 6) ELSE 0
                reserved2 == IF long THEN U16(b, at + 8) ELSE 0
                u32q == IF long THEN U32(b, at + 10) ELSE U32Of(0)
            IN  IF StructError \in {country, codepage, reserved1, reserved2} \/ u32q.lo = StructError
                THEN [brk |-> TRUE, exc |-> "struct.error", warns |-> <<>>]
                ELSE
                LET q1 == decode_far_ptr(u32q, flen)
                    qptr == IF long THEN FarPtr(q1) ELSE FarPtr(q0)
                    w1 == IF long THEN q1.warns
                          ELSE <<"header_len < 12 (cannot parse fields)">>
                IN  [brk |-> FALSE, exc |-> "none", warns |-> w0 \o q0.warns \o w1,
                     entry |-> CountryEntry(at, header_len, country, codepage,
                                            reserved1, reserved2, qptr, <<>>)]

\* The head of the subfunction walk without the test Q + 2 <= flen.
read_subfunc_table_unchecked(b, Q) ==
    LET n == U16(b, Q)
    IN  IF n = StructError THEN [walked |-> FALSE, exc |-> "struct.error"]
        ELSE [walked |-> TRUE, exc |-> "none", Y |-> n]

\* The head of the subfunction walk of an entry whose table is at Q: whether
\* the table is walked, and the count it declares.
read_subfunc_table(b, Q) ==
    IF Q + 2 <= FLen(b)
    THEN LET n == U16(b, Q)
         IN  IF n = StructError THEN [walked |-> FALSE, exc |-> "struct.error"]
             ELSE [walked |-> TRUE, exc |-> "none", Y |-> n]
    ELSE [walked |-> FALSE, exc |-> "none"]

\* The tagged block of a record and what is decoded from it.
read_tagged(b, sf_id, dptr, is_strict) ==
    Once({Once({IF pt.exc # "none" THEN [exc |-> pt.exc, warns |-> <<>>]
                ELSE Once({IF v.exc # "none" THEN [exc |-> v.exc, warns |-> pt.warns]
                           ELSE Once({[exc |-> "none", warns |-> pt.warns \o v.warns,
                                       tagged |-> Some(pt.tagged), decoded |-> d] :
                                      d \in {decode_subfunc(sf_id, pt.tagged)}}) :
                           v \in {validate_magic_and_tag(sf_id, pt.tagged, is_strict)}}) :
                pt \in {parse_tagged(b, off)}}) :
          off \in {dptr.linear}})

\* One turn of the subfunction loop without the test of a zero entry_len.
read_subfunc_no_stall_test(b, at, is_strict) ==
    LET flen == FLen(b)
    IN  IF at + 2 > flen
        THEN [brk |-> TRUE, exc |-> "none", warns |-> <<"subfunc header truncated">>]
        ELSE
        LET entry_len == U16(b, at)
        IN  IF entry_len = StructError THEN [brk |-> TRUE, exc |-> "struct.error", warns |-> <<>>]
            ELSE IF at + 2 + entry_len > flen
            THEN [brk |-> TRUE, exc |-> "none", warns |-> <<"subfunc entry beyond EOF">>]
            ELSE
            LET d0 == decode_far_ptr(U32Of(0), flen)
                long == entry_len >= 6
                sf_id == IF long THEN U16(b, at + 2) ELSE 0
                u32d == IF long THEN U32(b, at + 4) ELSE U32Of(0)
            IN  IF sf_id = StructError \/ u32d.lo = StructError
                THEN [brk |-> TRUE, exc |-> "struct.error", warns |-> <<>>]
                ELSE
                LET d1 == decode_far_ptr(u32d, flen)
                    dptr == IF long THEN FarPtr(d1) ELSE FarPtr(d0)
                    w1 == d0.warns \o (IF long THEN d1.warns ELSE <<>>)
                IN  IF sf_id # 0 /\ dptr.linear < flen
                    THEN Once({IF t.exc # "none"
                               THEN [brk |-> TRUE, exc |-> t.exc, warns |-> w1 \o t.warns]
                               ELSE [brk |-> FALSE, exc |-> "none", warns |-> w1 \o t.warns,
                                     s |-> SubfuncEntry(at, entry_len, sf_id, dptr,
                                                        t.tagged, t.decoded)] :
                               t \in {read_tagged(b, sf_id, dptr, is_strict)}})
                    ELSE [brk |-> FALSE, exc |-> "none", warns |-> w1,
                          s |-> SubfuncEntry(at, entry_len, sf_id, dptr, <<>>, <<>>)]

\* One turn of the subfunction loop at cursor at: the record, or the break of
\* the loop, or the exception raised.
read_subfunc(b, at, is_strict) ==
    LET flen == FLen(b)
    IN  IF at + 2 > flen
        THEN [brk |-> TRUE, exc |-> "none", warns |-> <<"subfunc header truncated">>]
        ELSE
        LET entry_len == U16(b, at)
        IN  IF entry_len = StructError THEN [brk |-> TRUE, exc |-> "struct.error", warns |-> <<>>]
            ELSE IF entry_len = 0
            THEN [brk |-> TRUE, exc |-> "none", warns |-> <<"subfunc entry_len=0 (would stall)">>]
            ELSE IF at + 2 + entry_len > flen
            THEN [brk |-> TRUE, exc |-> "none", warns |-> <<"subfunc entry beyond EOF">>]
            ELSE
            LET d0 == decode_far_ptr(U32Of(0), flen)
                long == entry_len >= 6
                sf_id == IF long THEN U16(b, at + 2) ELSE 0
                u32d == IF long THEN U32(b, at + 4) ELSE U32Of(0)
            IN  IF sf_id = StructError \/ u32d.lo = StructError
                THEN [brk |-> TRUE, exc |-> "struct.error", warns |-> <<>>]
                ELSE
                LET d1 == decode_far_ptr(u32d, flen)
                    dptr == IF long THEN FarPtr(d1) ELSE FarPtr(d0)
                    w1 == d0.warns \o (IF long THEN d1.warns ELSE <<>>)
                IN  IF sf_id # 0 /\ dptr.linear < flen
                    THEN Once({IF t.exc # "none"
                               THEN [brk |-> TRUE, exc |-> t.exc, warns |-> w1 \o t.warns]
                               ELSE [brk |-> FALSE, exc |-> "none", warns |-> w1 \o t.warns,
                                     s |-> SubfuncEntry(at, entry_len, sf_id, dptr,
                                                        t.tagged, t.decoded)] :
                               t \in {read_tagged(b, sf_id, dptr, is_strict)}})
                    ELSE [brk |-> FALSE, exc |-> "none", warns |-> w1,
                          s |-> SubfuncEntry(at, entry_len, sf_id, dptr, <<>>, <<>>)]

\* The diagnostics parse_country_sys appends after the walk.
final_warnings(entry_table_count, pointer_info_type) ==
    (IF entry_table_count # 1 THEN <<"entry_table_count (normally 1)">> ELSE <<>>)
    \o (IF pointer_info_type # 1 THEN <<"pointer_info_type (normally 1)">> ELSE <<>>)

\* The file the inputs are cut from and patched: a header that announces one
\* entry table and holds two pointers to it, a table of two entries
\* (1, 437) and (44, 850) that share a subfunction table of two records, the
\* CTYINFO block of the first record (6 payload bytes) and the YESNO block of
\* the second.
LE32(lo, hi) == LE16(lo) \o LE16(hi)

BaseHeader == <<255>> \o COUNTRY \o <<0, 0, 0, 0, 0, 0, 0, 0>> \o LE16(1) \o <<1>>
TableAt == Len(BaseHeader) + 8
SubfuncAt == TableAt + 2 + 14 + 14
CtyinfoAt == SubfuncAt + 2 + 8 + 8
YesnoAt == CtyinfoAt + 10 + 6

BaseFile ==
    BaseHeader \o LE32(TableAt, 0) \o LE32(TableAt, 0)
    \o LE16(2)
    \o LE16(12) \o LE16(1) \o LE16(437) \o LE16(0) \o LE16(0) \o LE32(SubfuncAt, 0)
    \o LE16(12) \o LE16(44) \o LE16(850) \o LE16(0) \o LE16(0) \o LE32(SubfuncAt, 0)
    \o LE16(2)
    \o LE16(6) \o LE16(1) \o LE32(CtyinfoAt, 0)
    \o LE16(6) \o LE16(35) \o LE32(YesnoAt, 0)
    \o TaggedBlock(255, Magic7(CTYINFO, 32), 6, LE16(1) \o LE16(437) \o LE16(1))
    \o TaggedBlock(255, Magic7(YESNO, 0), 4, <<89, 48, 78, 0>>)

BaseLen == Len(BaseFile)

\* The largest count written into a count field of the file.
MaxCount == 3

\* A patch writes bytes at an offset of the file.
Patch(at, bytes) == [at |-> at, bytes |-> bytes]

Patched(data, p) ==
    [k \in 1..Len(data) |->
        IF p.at < k /\ k <= p.at + Len(p.bytes) THEN p.bytes[k - p.at] ELSE data[k]]

\* Pointer values around the end of the file, and one with a segment.
EdgePointers ==
    {LE32(v, 0) : v \in {0, BaseLen - 2, BaseLen - 1, BaseLen, BaseLen + 1, 65535}}
    \cup {LE32(11, 1), LE32(65535, 65535)}

\* Declared lengths tried for an entry header and a subfunction record.
EdgeLengths == {0, 2, 5, 6, 7, 11, 13, 14, 65535}

Patches ==
    {Patch(0, <<>>), Patch(0, <<0>>), Patch(1, <<99>>), Patch(7, <<0>>),
     Patch(8, <<1>>), Patch(15, <<128>>), Patch(18, <<0>>), Patch(18, <<2>>)}
    \cup {Patch(16, LE16(n)) : n \in (0..MaxCount) \cup {65535}}
    \cup {Patch(19, q) : q \in EdgePointers}
    \cup {Patch(23, LE32(SubfuncAt, 0))}
    \cup {Patch(TableAt, LE16(n)) : n \in (0..MaxCount) \cup {65535}}
    \cup {Patch(TableAt + 2, LE16(n)) : n \in EdgeLengths}
    \cup {Patch(TableAt + 12, q) : q \in EdgePointers}
    \cup {Patch(SubfuncAt, LE16(n)) : n \in (0..MaxCount) \cup {65535}}
    \cup {Patch(SubfuncAt + 2, LE16(n)) : n \in EdgeLengths}
    \cup {Patch(SubfuncAt + 4, LE16(n)) : n \in {0, 2, 5, 7, 21, 35, 99}}
    \cup {Patch(SubfuncAt + 6, q) : q \in EdgePointers \cup {LE32(YesnoAt, 0)}}
    \cup {Patch(SubfuncAt + 10, LE16(0))}
    \cup {Patch(SubfuncAt + 12, LE16(n)) : n \in {0, 7, 21}}
    \cup {Patch(CtyinfoAt, <<0>>), Patch(CtyinfoAt, <<1>>),
          Patch(CtyinfoAt + 1, <<88>>), Patch(CtyinfoAt + 7, <<0>>),
          Patch(CtyinfoAt + 8, LE16(0)), Patch(CtyinfoAt + 8, LE16(7)),
          Patch(CtyinfoAt + 8, LE16(65535)),
          Patch(YesnoAt, <<0>>), Patch(YesnoAt, <<254>>),
          Patch(YesnoAt + 1, ARAMODE), Patch(YesnoAt + 1, Magic7(DBCS, 32)),
          Patch(YesnoAt + 1, <<200>>)}

\* The lengths the patched file is cut to: around every structure boundary.
CutLengths ==
    {0, 8, 22, 23, 26, TableAt, TableAt + 1, TableAt + 2, TableAt + 3,
     TableAt + 15, TableAt + 16, TableAt + 17, SubfuncAt - 1, SubfuncAt,
     SubfuncAt + 1, SubfuncAt + 2, SubfuncAt + 3, SubfuncAt + 9, SubfuncAt + 10,
     CtyinfoAt, CtyinfoAt + 1, CtyinfoAt + 9, CtyinfoAt + 10, CtyinfoAt + 12,
     YesnoAt, YesnoAt + 9, YesnoAt + 10, YesnoAt + 12, BaseLen - 1, BaseLen}

\* The number of zero bytes that follow the bytes of a long input.
MaxPad == 22000

\* The patches of the long inputs: the declared length of the first entry.
LongPatches == {Patch(TableAt + 2, LE16(n)) : n \in EdgeLengths}

\* The inputs of parse_country_sys, in strict and in non-strict mode: the base
\* file with one patch, cut to one of the lengths; and the long inputs, the
\* whole base file with one of the long patches, followed by MaxPad zero bytes.
Init ==
    /\ pc = "call"
    /\ \E is_strict \in BOOLEAN :
         \/ \E p \in Patches, n \in CutLengths :
                arg = [buf |-> Bytes(SubSeq(Patched(BaseFile, p), 1, n)),
                       strict |-> is_strict]
         \/ \E p \in LongPatches :
                arg = [buf |-> [data |-> Patched(BaseFile, p), pad |-> MaxPad],
                       strict |-> is_strict]
    /\ ret = NoRet
    /\ warnings = <<>>
    /\ WalkIdle

ValidationError == [kind |-> "ValidationError"]

\* The position after the loop over the entries of table t_i ends or breaks:
\* the head of the loop over the tables, at the next table.
NextTableStep ==
    /\ t_i' = t_i + 1
    /\ pc' = "tables"

\* parse_country_sys, from the call to the head of the pointer loop.
Start ==
    /\ pc = "call"
    /\ IF header_invalid(arg.buf)
       THEN /\ ret' = ValidationError
            /\ pc' = "done"
            /\ UNCHANGED <<warnings, walk>>
       ELSE \E count \in {U16(arg.buf, 16)}, ptype \in {U8(arg.buf, 18)} :
                IF count = StructError \/ ptype = StructError
                THEN /\ ret' = [kind |-> "struct.error"]
                     /\ pc' = "done"
                     /\ UNCHANGED <<warnings, walk>>
                ELSE /\ warnings' = warnings \o reserved_check(arg.buf, arg.strict)
                     /\ hdr' = [entry_table_count |-> count, pointer_info_type |-> ptype]
                     /\ pc' = IF count = 0 THEN "tables" ELSE "ptrs"
                     /\ UNCHANGED <<ret, ptrs, entries, t_i, x_i, X, pos, cur, y_i, Y,
                                    sfpos, subfuncs>>
    /\ UNCHANGED arg

\* One turn of the loop over the entry-table pointers.
ReadPointer ==
    /\ pc = "ptrs"
    /\ \E r \in {read_pointer(arg.buf, Len(ptrs))} :
           IF r.exc # "none"
           THEN /\ ret' = [kind |-> r.exc]
                /\ pc' = "done"
                /\ UNCHANGED <<warnings, ptrs>>
           ELSE /\ warnings' = warnings \o r.warns
                /\ ptrs' = IF r.brk THEN ptrs ELSE Append(ptrs, r.ptr)
                /\ pc' = IF r.brk \/ Len(ptrs) + 1 = hdr.entry_table_count
                         THEN "tables" ELSE "ptrs"
                /\ UNCHANGED ret
    /\ UNCHANGED <<arg, hdr, entries, t_i, x_i, X, pos, cur, y_i, Y, sfpos, subfuncs>>

\* The head of one turn of the loop over the entry tables.
ReadTable ==
    /\ pc = "tables"
    /\ t_i < Len(ptrs)
    /\ \E r \in {read_table(arg.buf, ptrs[t_i + 1].linear)} :
           IF r.exc # "none"
           THEN /\ ret' = [kind |-> r.exc]
                /\ pc' = "done"
                /\ UNCHANGED <<warnings, t_i, x_i, X, pos>>
           ELSE /\ warnings' = warnings \o r.warns
                /\ UNCHANGED ret
                /\ IF r.skip \/ r.X = 0
                   THEN /\ NextTableStep
                        /\ UNCHANGED <<x_i, X, pos>>
                   ELSE /\ X' = r.X
                        /\ pos' = ptrs[t_i + 1].linear + 2
                        /\ x_i' = 0
                        /\ pc' = "entries"
                        /\ UNCHANGED t_i
    /\ UNCHANGED <<arg, hdr, ptrs, entries, cur, y_i, Y, sfpos, subfuncs>>

\* The end of one turn of the entry loop that moves the cursor by the declared
\* length alone and counts the entries of non-zero length only.
AppendEntryUncounted(e, sfs) ==
    /\ entries' = Append(entries, [e EXCEPT !.subfuncs = sfs])
    /\ pos' = pos + e.header_len
    /\ x_i' = IF e.header_len = 0 THEN x_i ELSE x_i + 1
    /\ IF x_i' = X
       THEN NextTableStep
       ELSE /\ pc' = "entries"
            /\ UNCHANGED t_i

\* The end of one turn of the entry loop that keeps one entry for each
\* (country, codepage) key.
AppendEntryOncePerKey(e, sfs) ==
    /\ entries' = IF \E i \in 1..Len(entries) :
                        /\ entries[i].country = e.country
                        /\ entries[i].codepage = e.codepage
                  THEN entries
                  ELSE Append(entries, [e EXCEPT !.subfuncs = sfs])
    /\ pos' = pos + 2 + e.header_len
    /\ x_i' = x_i + 1
    /\ IF x_i + 1 = X
       THEN NextTableStep
       ELSE /\ pc' = "entries"
            /\ UNCHANGED t_i

\* The end of one turn of the entry loop with the cursor moved by the size of
\* the fixed fields.
AppendEntryFixedSize(e, sfs) ==
    /\ entries' = Append(entries, [e EXCEPT !.subfuncs = sfs])
    /\ pos' = pos + 2 + 12
    /\ x_i' = x_i + 1
    /\ IF x_i + 1 = X
       THEN NextTableStep
       ELSE /\ pc' = "entries"
            /\ UNCHANGED t_i

\* The end of one turn of the entry loop: the entry e is appended with the
\* records sfs, and the cursor moves by its declared length.
AppendEntry(e, sfs) ==
    /\ entries' = Append(entries, [e EXCEPT !.subfuncs = sfs])
    /\ pos' = pos + 2 + e.header_len
    /\ x_i' = x_i + 1
    /\ IF x_i + 1 = X
       THEN NextTableStep
       ELSE /\ pc' = "entries"
            /\ UNCHANGED t_i

\* One turn of the loop over the entries of a table, up to the walk of the
\* entry's subfunction table.
ReadEntry ==
    /\ pc = "entries"
    /\ \E r \in {read_entry(arg.buf, pos)} :
           IF r.exc # "none"
           THEN /\ ret' = [kind |-> r.exc]
                /\ pc' = "done"
                /\ UNCHANGED <<warnings, entries, t_i, x_i, pos, cur, y_i, Y, sfpos, subfuncs>>
           ELSE IF r.brk
           THEN /\ warnings' = warnings \o r.warns
                /\ NextTableStep
                /\ UNCHANGED <<ret, entries, x_i, pos, cur, y_i, Y, sfpos, subfuncs>>
           ELSE \E h \in {read_subfunc_table(arg.buf, r.entry.subfunc_header_ptr.linear)} :
                    IF h.exc # "none"
                    THEN /\ ret' = [kind |-> h.exc]
                         /\ pc' = "done"
                         /\ UNCHANGED <<warnings, entries, t_i, x_i, pos, cur, y_i, Y,
                                        sfpos, subfuncs>>
                    ELSE /\ warnings' = warnings \o r.warns
                         /\ UNCHANGED ret
                         /\ IF h.walked /\ h.Y > 0
                            THEN /\ cur' = r.entry
                                 /\ Y' = h.Y
                                 /\ y_i' = 0
                                 /\ sfpos' = r.entry.subfunc_header_ptr.linear + 2
                                 /\ subfuncs' = <<>>
                                 /\ pc' = "subfuncs"
                                 /\ UNCHANGED <<entries, t_i, x_i, pos>>
                            ELSE /\ AppendEntry(r.entry, <<>>)
                                 /\ UNCHANGED <<cur, y_i, Y, sfpos, subfuncs>>
    /\ UNCHANGED <<arg, hdr, ptrs, X>>

\* One turn of the loop over the records of a subfunction table; at its end
\* or break the entry is appended.
ReadSubfunc ==
    /\ pc = "subfuncs"
    /\ \E r \in {read_subfunc(arg.buf, sfpos, arg.strict)} :
           IF r.exc # "none"
           THEN /\ ret' = [kind |-> r.exc]
                /\ pc' = "done"
                /\ UNCHANGED <<warnings, entries, t_i, x_i, pos, y_i, sfpos, subfuncs>>
           ELSE /\ warnings' = warnings \o r.warns
                /\ UNCHANGED ret
                /\ IF r.brk
                   THEN /\ AppendEntry(cur, subfuncs)
                        /\ UNCHANGED <<y_i, sfpos, subfuncs>>
                   ELSE IF y_i + 1 = Y
                   THEN /\ AppendEntry(cur, Append(subfuncs, r.s))
                        /\ subfuncs' = Append(subfuncs, r.s)
                        /\ sfpos' = sfpos + 2 + r.s.entry_len
                        /\ y_i' = y_i + 1
                   ELSE /\ subfuncs' = Append(subfuncs, r.s)
                        /\ sfpos' = sfpos + 2 + r.s.entry_len
                        /\ y_i' = y_i + 1
                        /\ UNCHANGED <<entries, t_i, x_i, pos, pc>>
    /\ UNCHANGED <<arg, hdr, ptrs, X, cur, Y>>

\* The end of parse_country_sys: the last diagnostics and the document.
Finish ==
    /\ pc = "tables"
    /\ t_i >= Len(ptrs)
    /\ warnings' = warnings \o final_warnings(hdr.entry_table_count, hdr.pointer_info_type)
    /\ ret' = [kind |-> "ParsedCountrySys",
               val |-> ParsedCountrySys(FLen(arg.buf), hdr.entry_table_count,
                                        hdr.pointer_info_type, ptrs, entries, warnings')]
    /\ pc' = "done"
    /\ UNCHANGED <<arg, hdr, ptrs, entries, t_i, x_i, X, pos, cur, y_i, Y, sfpos, subfuncs>>

Next == Start \/ ReadPointer \/ ReadTable \/ ReadEntry \/ ReadSubfunc \/ Finish

Spec == Init /\ [][Next]_vars

---------------------------------------------------------------------------
(* Properties of parse_country_sys *)

\* What the caller of parse_country_sys gets: the document returned, or the
\* exception raised.
\* parse_country_sys runs on: a step that can be taken is taken.
SpecLive == Spec /\ WF_vars(Next)

Returned(kind) == pc = "done" /\ ret.kind = kind

\* The fixed header region is there and carries the signature byte and the
\* literal COUNTRY, stated on the bytes of the buffer.
HeaderPresent(b) ==
    /\ FLen(b) >= 23
    /\ ByteAt(b, 0) = 255
    /\ [k \in 1..7 |-> ByteAt(b, k)] = COUNTRY

\* C1: in non-strict mode parse_country_sys raises ValidationError exactly
\* when the buffer is shorter than 23 bytes, or byte 0 is not 0xFF, or bytes
\* 1-7 are not the literal COUNTRY; for every other buffer it returns a
\* document, and it raises nothing else.
C1_FatalOnlyOnHeader ==
    (pc = "done" /\ ~arg.strict) =>
        /\ ret.kind \in {"ValidationError", "ParsedCountrySys"}
        /\ ret.kind = "ValidationError" <=> ~HeaderPresent(arg.buf)

\* A document is returned in non-strict mode for a file whose header announces
\* 65535 entry tables.
C1_Witness ==
    /\ Returned("ParsedCountrySys")
    /\ ~arg.strict
    /\ ret.val.entry_table_count = 65535
    /\ InSeq("pointer array truncated", ret.val.warnings)

\* The offsets of the entry tables the header announces and the buffer holds
\* a pointer for, as the parser resolves them.
AnnouncedTables(b) ==
    LET count == U16(b, 16)
        held == Min(count, (FLen(b) - 19) \div 4)
    IN  [i \in 1..held |-> decode_far_ptr(U32(b, 19 + 4 * (i - 1)), FLen(b)).linear]

\* The entry count the table at P declares: none when its count field does
\* not lie in the buffer.
DeclaredCount(b, P) == IF P + 2 > FLen(b) THEN 0 ELSE U16(b, P)

\* The sum of the entry counts the tables at offsets ps declare, from index k on.
RECURSIVE DeclaredEntries(_, _, _)
DeclaredEntries(b, ps, k) ==
    IF k > Len(ps) THEN 0
    ELSE DeclaredCount(b, ps[k]) + DeclaredEntries(b, ps, k + 1)

\* The diagnostics for an entry that does not lie in the buffer.
EntryShortfall == {"entry truncated", "entry header extends beyond EOF"}

\* C2: when the document returned holds a number of entries that differs from
\* the sum of the entry counts declared by the announced entry tables, its
\* diagnostics hold a truncation or beyond-EOF diagnostic for an entry.
C2_EntryShortfallDiagnosed ==
    (Returned("ParsedCountrySys")
        /\ Len(ret.val.entries) # DeclaredEntries(arg.buf, AnnouncedTables(arg.buf), 1))
    => \E d \in EntryShortfall : InSeq(d, ret.val.warnings)

\* A document with fewer entries than its table declares, and the diagnostic.
C2_Witness ==
    /\ Returned("ParsedCountrySys")
    /\ Len(ret.val.entries) = 1
    /\ DeclaredEntries(arg.buf, AnnouncedTables(arg.buf), 1) = 2
    /\ InSeq("entry header extends beyond EOF", ret.val.warnings)

\* C9: in strict mode a file whose reserved header bytes 8-15 are not all zero
\* makes parse_country_sys fail: no document is returned.
C9_StrictReservedFatal ==
    (pc = "done" /\ arg.strict /\ HeaderPresent(arg.buf)
        /\ \E k \in 8..15 : ByteAt(arg.buf, k) # 0)
    => ret.kind = "ValidationError"

\* The record of the subfunction table at the cursor of the walk: whether its
\* tagged block is parsed, and the identifier and block offset it names.
CursorRecord ==
    LET b == arg.buf
        flen == FLen(b)
        entry_len == U16(b, sfpos)
        sf_id == U16(b, sfpos + 2)
        lin == decode_far_ptr(U32(b, sfpos + 4), flen).linear
    IN  [parsed |-> /\ sfpos + 2 <= flen
                    /\ entry_len >= 6
                    /\ sfpos + 2 + entry_len <= flen
                    /\ sf_id # 0
                    /\ lin < flen,
         entry_len |-> entry_len, sf_id |-> sf_id, linear |-> lin]

\* The walk is about to read a record whose tagged block carries a cleaned
\* magic outside the accepted set of the record's identifier.
MagicMismatchAtCursor ==
    /\ pc = "subfuncs"
    /\ CursorRecord.parsed
    /\ LET pt == parse_tagged(arg.buf, CursorRecord.linear)
           allowed == ALLOWED_MAGICS(CursorRecord.sf_id)
       IN  pt.exc = "none" /\ allowed # {} /\ pt.tagged.magic \notin allowed

\* C10: on a tagged block whose cleaned magic is not in the accepted set of
\* its subfunction identifier, the step of the walk in non-strict mode appends
\* the magic-mismatch diagnostic, appends the record with its tagged block and
\* moves to the next record without raising; in strict mode it ends the parse
\* with ValidationError.
C10_MagicMismatch ==
    [][ MagicMismatchAtCursor =>
          IF arg.strict
          THEN pc' = "done" /\ ret'.kind = "ValidationError"
          ELSE /\ InSeq("magic mismatch",
                        SubSeq(warnings', Len(warnings) + 1, Len(warnings')))
               /\ ret' = NoRet
               /\ pc' # "done"
               /\ Len(subfuncs') = Len(subfuncs) + 1
               /\ subfuncs'[Len(subfuncs')].subfunc_id = CursorRecord.sf_id
               /\ subfuncs'[Len(subfuncs')].tagged
                    = Some(parse_tagged(arg.buf, CursorRecord.linear).tagged)
               /\ sfpos' = sfpos + 2 + CursorRecord.entry_len
               /\ y_i' = y_i + 1
               /\ (y_i + 1 < Y => pc' = "subfuncs")
      ]_vars

\* In non-strict mode the walk stands at the next record after one whose
\* tagged block was kept with a magic outside the accepted set.
C10_Witness ==
    /\ pc = "subfuncs"
    /\ ~arg.strict
    /\ subfuncs # <<>>
    /\ LET s == subfuncs[Len(subfuncs)]
       IN  /\ s.tagged # <<>>
           /\ ALLOWED_MAGICS(s.subfunc_id) # {}
           /\ s.tagged[1].magic \notin ALLOWED_MAGICS(s.subfunc_id)
    /\ InSeq("magic mismatch", warnings)

\* The entry of the entry table at the cursor of the walk: whether it lies in
\* the buffer, its declared length, and where its subfunction pointer resolves.
CursorEntry ==
    LET b == arg.buf
        flen == FLen(b)
        header_len == U16(b, pos)
    IN  [present |-> pos + 2 <= flen /\ pos + 2 + header_len <= flen,
         header_len |-> header_len,
         country |-> U16(b, pos + 2),
         codepage |-> U16(b, pos + 4),
         Q |-> decode_far_ptr(U32(b, pos + 10), flen).linear]

\* The diagnostics a step appends.
NewWarnings == SubSeq(warnings', Len(warnings) + 1, Len(warnings'))

\* C11: for an entry that declares a header of 12 bytes (or more) and whose
\* subfunction-table pointer resolves past the end of the buffer, the step of
\* the walk raises nothing, appends the entry with its fields and no
\* subfunction record, and appends a pointer-beyond-the-file diagnostic.
C11_PointerPastEOFKeepsEntry ==
    [][ (pc = "entries" /\ CursorEntry.present /\ CursorEntry.header_len >= 12
            /\ CursorEntry.Q > FLen(arg.buf))
        => /\ ret' = NoRet
           /\ pc' # "done"
           /\ Len(entries') = Len(entries) + 1
           /\ entries'[Len(entries')].subfuncs = <<>>
           /\ entries'[Len(entries')].header_len = CursorEntry.header_len
           /\ entries'[Len(entries')].country = CursorEntry.country
           /\ entries'[Len(entries')].codepage = CursorEntry.codepage
           /\ InSeq("pointer beyond file length", NewWarnings)
      ]_vars

\* The document returned holds the entry (1, 437) with header length 12, a
\* subfunction pointer past the end of the buffer and no subfunction record.
C11_Witness ==
    /\ Returned("ParsedCountrySys")
    /\ \E k \in 1..Len(ret.val.entries) :
          LET e == ret.val.entries[k]
          IN  /\ e.header_len = 12 /\ e.country = 1 /\ e.codepage = 437
              /\ e.reserved1 = 0 /\ e.reserved2 = 0
              /\ e.subfunc_header_ptr.linear > ret.val.file_size
              /\ e.subfuncs = <<>>
    /\ InSeq("pointer beyond file length", ret.val.warnings)

\* The walk is about to read an entry in the buffer, with its fields, whose
\* subfunction table's count word does not lie in the buffer.
TableTargetOutside ==
    /\ pc = "entries"
    /\ CursorEntry.present
    /\ CursorEntry.header_len >= 12
    /\ CursorEntry.Q + 2 > FLen(arg.buf)

\* The walk is about to read a record in the buffer, with an identifier,
\* whose tagged block starts at or after the end of the buffer.
TaggedTargetOutside ==
    /\ pc = "subfuncs"
    /\ sfpos + 2 <= FLen(arg.buf)
    /\ CursorRecord.entry_len >= 6
    /\ sfpos + 2 + CursorRecord.entry_len <= FLen(arg.buf)
    /\ CursorRecord.sf_id # 0
    /\ CursorRecord.linear >= FLen(arg.buf)

\* C18: the step that leaves a subfunction table's count word unread
\* (target + 2 > length) or a record's tagged block unread (target >= length)
\* appends at least one diagnostic.
C18_UnreadTargetDiagnosed ==
    [][ (TableTargetOutside \/ TaggedTargetOutside) => NewWarnings # <<>> ]_vars

\* C19: an entry recorded with a declared header length below 12 has no
\* field extracted and an empty subfunction list, and its diagnostic is among
\* the diagnostics, whatever the rest of the buffer holds.
C19_ShortHeaderNoSubfuncs ==
    \A i \in 1..Len(entries) :
        entries[i].header_len < 12 =>
            /\ entries[i].subfuncs = <<>>
            /\ entries[i].country = 0
            /\ entries[i].codepage = 0
            /\ \E k \in 1..Len(warnings) :
                   warnings[k] = "header_len < 12 (cannot parse fields)"

\* The walk is about to read a record whose declared length is zero.
ZeroLengthAtCursor ==
    /\ pc = "subfuncs"
    /\ sfpos + 2 <= FLen(arg.buf)
    /\ U16(arg.buf, sfpos) = 0

\* C20: the step that meets a declared record length of zero in a subfunction
\* table appends the diagnostic of the stall, raises nothing, appends the
\* owning entry with exactly the records gathered before that position, and
\* goes on with the next entry of the entry table (or, after the last entry,
\* with the next table).
C20_ZeroLengthStopsTable ==
    [][ ZeroLengthAtCursor =>
          /\ NewWarnings = <<"subfunc entry_len=0 (would stall)">>
          /\ ret' = NoRet
          /\ entries' = Append(entries, [cur EXCEPT !.subfuncs = subfuncs])
          /\ \A k \in 1..Len(subfuncs) : subfuncs[k].offset < sfpos
          /\ x_i' = x_i + 1
          /\ pos' = pos + 2 + cur.header_len
          /\ pc' = IF x_i + 1 < X THEN "entries" ELSE "tables"
          /\ t_i' = IF x_i + 1 < X THEN t_i ELSE t_i + 1 ]_vars

\* Both entries of the file whose second record declares the length zero have
\* been appended, each with the first record alone.
C20_Witness ==
    /\ U16(arg.buf, SubfuncAt + 10) = 0
    /\ arg.buf.pad = 0
    /\ Len(entries) = 2
    /\ \A i \in 1..2 :
           /\ Len(entries[i].subfuncs) = 1
           /\ entries[i].subfuncs[1].offset = SubfuncAt + 2
    /\ entries[1].country = 1
    /\ entries[2].country = 44
    /\ \E k \in 1..Len(warnings) : warnings[k] = "subfunc entry_len=0 (would stall)"

\* C21: offsets are driven by declared lengths alone.  Every recorded entry
\* and record lies in the buffer (offset + 2 + declared length <= file size),
\* consecutive records of one entry are apart by 2 + the declared length of
\* the first, and an entry appended after another entry of the same table
\* lies 2 + the declared header length after it, whatever that length is.
C21_OffsetsFromDeclaredLengths ==
    /\ [](LET flen == FLen(arg.buf)
              RecordsChained(sfs) ==
                  /\ \A k \in 1..Len(sfs) : sfs[k].offset + 2 + sfs[k].entry_len <= flen
                  /\ \A k \in 1..(Len(sfs) - 1) :
                         sfs[k + 1].offset = sfs[k].offset + 2 + sfs[k].entry_len
          IN  /\ \A i \in 1..Len(entries) :
                     /\ entries[i].offset + 2 + entries[i].header_len <= flen
                     /\ RecordsChained(entries[i].subfuncs)
              /\ RecordsChained(subfuncs)
              /\ Returned("ParsedCountrySys") => ret.val.entries = entries)
    /\ [][ (Len(entries') = Len(entries) + 1 /\ x_i > 0) =>
             /\ entries # <<>>
             /\ entries'[Len(entries')].offset
                  = entries[Len(entries)].offset + 2 + entries[Len(entries)].header_len ]_vars

\* A returned document read through one table pointer whose first entry
\* declares the header length 0 and whose second entry lies 2 bytes after it.
C21_Witness ==
    /\ Returned("ParsedCountrySys")
    /\ Len(ptrs) = 1
    /\ Len(ret.val.entries) = 2
    /\ ret.val.entries[1].header_len = 0
    /\ ret.val.entries[2].offset = ret.val.entries[1].offset + 2
    /\ ret.val.entries[2].header_len \in 1..11

\* C22: among the records gathered and recorded, a record with identifier 0
\* has no tagged block and no decoded mapping, and a record with a decoded
\* mapping has a tagged block and an identifier in {1, 5, 7, 35}.
C22_SentinelAndDecodedRecords ==
    LET Sound(s) ==
            /\ s.subfunc_id = 0 => (s.tagged = <<>> /\ s.decoded = <<>>)
            /\ s.decoded # <<>> => (s.tagged # <<>> /\ s.subfunc_id \in {1, 5, 7, 35})
    IN  /\ \A k \in 1..Len(subfuncs) : Sound(subfuncs[k])
        /\ \A i \in 1..Len(entries) :
               \A k \in 1..Len(entries[i].subfuncs) : Sound(entries[i].subfuncs[k])
        /\ Returned("ParsedCountrySys") => ret.val.entries = entries

\* A returned document whose first record has the identifier 0, a data
\* pointer inside the buffer and no tagged block, and whose second record is
\* decoded.
C22_Witness ==
    /\ Returned("ParsedCountrySys")
    /\ Len(ret.val.entries) >= 1
    /\ Len(ret.val.entries[1].subfuncs) = 2
    /\ LET s1 == ret.val.entries[1].subfuncs[1]
           s2 == ret.val.entries[1].subfuncs[2]
       IN  /\ s1.subfunc_id = 0
           /\ s1.entry_len >= 6
           /\ s1.data_ptr.linear < FLen(arg.buf)
           /\ s1.tagged = <<>>
           /\ s2.subfunc_id = 35
           /\ s2.decoded # <<>>

\* C23: in non-strict mode a record gathered or recorded with a decoded
\* mapping has a tagged block whose magic is in the accepted set of its
\* identifier (so the record was not reported with a magic mismatch).
C23_DecodedOnlyAcceptedMagic ==
    LET Accepted(s) ==
            s.decoded # <<>> => s.tagged[1].magic \in ALLOWED_MAGICS(s.subfunc_id)
    IN  ~arg.strict =>
            /\ \A k \in 1..Len(subfuncs) : Accepted(subfuncs[k])
            /\ \A i \in 1..Len(entries) :
                   \A k \in 1..Len(entries[i].subfuncs) : Accepted(entries[i].subfuncs[k])

\* C24: in non-strict mode, the step that parses a tagged block whose tag
\* byte deviates from the convention of its kind (0x00 for ARAMODE, 0xFF for
\* every other block) appends a diagnostic; the step that parses an ARAMODE
\* block with the tag 0x00 appends no tag diagnostic.
C24_TagConvention ==
    [][ (pc = "subfuncs" /\ CursorRecord.parsed /\ ~arg.strict) =>
          LET pt == parse_tagged(arg.buf, CursorRecord.linear)
              TagDiagnostics == {"ARAMODE: expected tag 0x00", "tag unusual"}
          IN  pt.exc = "none" =>
                /\ (pt.tagged.tag # (IF pt.tagged.magic = ARAMODE THEN 0 ELSE 255))
                      => NewWarnings # <<>>
                /\ (pt.tagged.magic = ARAMODE /\ pt.tagged.tag = 0)
                      => \A k \in 1..Len(NewWarnings) : NewWarnings[k] \notin TagDiagnostics
      ]_vars

\* C25: in non-strict mode, the step that parses a tagged block at an offset
\* with fewer than 10 bytes left raises nothing, appends the diagnostic of the
\* truncated header and gathers the record with the empty block (tag 0, empty
\* magic, size 0, empty payload, no dummy word) and no decoded mapping; and a
\* non-strict parse that recorded such a block ends with a document.
C25_TruncatedTaggedHeader ==
    /\ [][ (/\ pc = "subfuncs"
            /\ CursorRecord.parsed
            /\ CursorRecord.linear + 10 > FLen(arg.buf)
            /\ ~arg.strict) =>
             /\ ret' = NoRet
             /\ \E k \in 1..Len(NewWarnings) : NewWarnings[k] = "tagged header truncated"
             /\ Len(subfuncs') = Len(subfuncs) + 1
             /\ subfuncs'[Len(subfuncs')].offset = sfpos
             /\ subfuncs'[Len(subfuncs')].tagged
                  = Some(Tagged(CursorRecord.linear, 0, <<>>, <<>>, 0, <<>>, <<>>))
             /\ subfuncs'[Len(subfuncs')].decoded = <<>> ]_vars
    /\ []((/\ pc = "done"
           /\ ~arg.strict
           /\ \E i \in 1..Len(entries) : \E k \in 1..Len(entries[i].subfuncs) :
                  /\ entries[i].subfuncs[k].tagged # <<>>
                  /\ entries[i].subfuncs[k].tagged[1].offset + 10 > FLen(arg.buf))
          => (Returned("ParsedCountrySys") /\ ret.val.entries = entries))

\* A document returned in non-strict mode with a record whose data pointer
\* leaves 2 bytes before the end of the buffer: its block is the empty block.
C25_Witness ==
    /\ Returned("ParsedCountrySys")
    /\ ~arg.strict
    /\ \E k \in 1..Len(ret.val.warnings) : ret.val.warnings[k] = "tagged header truncated"
    /\ \E i \in 1..Len(ret.val.entries) : \E k \in 1..Len(ret.val.entries[i].subfuncs) :
           LET s == ret.val.entries[i].subfuncs[k]
           IN  /\ s.data_ptr.linear = FLen(arg.buf) - 2
               /\ s.tagged = Some(Tagged(s.data_ptr.linear, 0, <<>>, <<>>, 0, <<>>, <<>>))

\* C26: every walked entry and record is kept, in walk order.  No step takes
\* an element out of the entries; a step that reads a record lying in the
\* buffer gathers it after the records gathered so far, whatever their
\* identifiers; the step that ends a subfunction walk appends the entry with
\* all the records gathered; and a step that reads an entry lying in the
\* buffer either starts its subfunction walk or appends it after the entries
\* recorded so far, whatever their keys.
C26_NoDeduplication ==
    [][ /\ Len(entries') >= Len(entries)
        /\ SubSeq(entries', 1, Len(entries)) = entries
        /\ (pc = "subfuncs" /\ ret' = NoRet /\ sfpos + 2 <= FLen(arg.buf)
               /\ CursorRecord.entry_len # 0
               /\ sfpos + 2 + CursorRecord.entry_len <= FLen(arg.buf))
             => /\ Len(subfuncs') = Len(subfuncs) + 1
                /\ SubSeq(subfuncs', 1, Len(subfuncs)) = subfuncs
                /\ subfuncs'[Len(subfuncs')].offset = sfpos
                /\ subfuncs'[Len(subfuncs')].subfunc_id
                     = IF CursorRecord.entry_len >= 6 THEN CursorRecord.sf_id ELSE 0
        /\ (pc = "subfuncs" /\ ret' = NoRet /\ pc' # "subfuncs")
             => entries' = Append(entries, [cur EXCEPT !.subfuncs = subfuncs'])
        /\ (pc = "entries" /\ ret' = NoRet /\ CursorEntry.present)
             => IF pc' = "subfuncs"
                THEN cur'.offset = pos /\ entries' = entries
                ELSE /\ Len(entries') = Len(entries) + 1
                     /\ entries'[Len(entries')].offset = pos
                     /\ CursorEntry.header_len >= 12 =>
                          /\ entries'[Len(entries')].country = CursorEntry.country
                          /\ entries'[Len(entries')].codepage = CursorEntry.codepage
      ]_vars

\* The document of a file whose two table pointers resolve to the same table:
\* the two entries of the table appear twice, in walk order.
C26_Witness ==
    /\ Returned("ParsedCountrySys")
    /\ Len(ptrs) = 2
    /\ ptrs[1].linear = ptrs[2].linear
    /\ Len(ret.val.entries) = 4
    /\ ret.val.entries[3] = ret.val.entries[1]
    /\ ret.val.entries[4] = ret.val.entries[2]
    /\ ret.val.entries[1].country # ret.val.entries[2].country
    /\ Len(ret.val.entries[1].subfuncs) = 2

\* C30: parse_country_sys terminates on every input.  Every run reaches its
\* end; each loop counter stays below the count of its loop, a 16-bit value
\* read from the buffer; a step of the subfunction loop that stays in the loop
\* moves the cursor forward and counts one turn, and so does a step of the
\* entry loop.
C30_Terminates ==
    /\ <>(pc = "done")
    /\ [](pc \in {"ptrs", "tables", "entries", "subfuncs"} =>
            /\ hdr.entry_table_count <= 65535
            /\ Len(ptrs) <= hdr.entry_table_count
            /\ t_i <= Len(ptrs)
            /\ X <= 65535 /\ Y <= 65535
            /\ pc = "ptrs" => Len(ptrs) < hdr.entry_table_count
            /\ pc = "entries" => x_i < X
            /\ pc = "subfuncs" => (x_i < X /\ y_i < Y))
    /\ [][ /\ (pc = "subfuncs" /\ pc' = "subfuncs") =>
                (sfpos' > sfpos /\ y_i' = y_i + 1 /\ x_i' = x_i /\ t_i' = t_i)
           /\ (pc = "ptrs" /\ pc' = "ptrs") => Len(ptrs') = Len(ptrs) + 1
           /\ (pc \in {"entries", "subfuncs"} /\ pc' = "entries") =>
                (pos' > pos /\ x_i' = x_i + 1 /\ t_i' = t_i)
           /\ (pc \in {"tables", "entries", "subfuncs"} /\ pc' = "tables") =>
                t_i' = t_i + 1 ]_vars

\* The walk has ended with a document for a file whose subfunction table
\* announces 65535 records: both entries were appended with the two records
\* that lie in the buffer.
C30_Witness ==
    /\ Returned("ParsedCountrySys")
    /\ Y = 65535
    /\ Len(ret.val.entries) = 2
    /\ Len(ret.val.entries[1].subfuncs) = 2
    /\ Len(ret.val.entries[2].subfuncs) = 2

---------------------------------------------------------------------------
(* decode_yesno *)

\* Bounds of the payloads tried: every sequence of up to MaxYesnoLen bytes
\* drawn from YesnoBytes (NUL, the digit 0, N, Y and a byte that is not ASCII).
MaxYesnoLen == 5
YesnoBytes == {0, 48, 78, 89, 200}

\* The sequences of exactly n bytes of YesnoBytes.
RECURSIVE YesnoPayloads(_)
YesnoPayloads(n) ==
    IF n = 0 THEN {<<>>}
    ELSE {Append(q, c) : q \in YesnoPayloads(n - 1), c \in YesnoBytes}

InitYesno ==
    /\ pc = "call"
    /\ \E n \in 0..MaxYesnoLen : \E q \in YesnoPayloads(n) : arg = [payload |-> q]
    /\ ret = NoRet
    /\ warnings = <<>>
    /\ WalkIdle

\* The call decode_yesno(tagged) on a YESNO block with the payload.
DecodeYesno ==
    /\ pc = "call"
    /\ ret' = [kind |-> "dict",
               val |-> decode_yesno(Tagged(0, 255, Magic7(YESNO, 0), YESNO,
                                           Len(arg.payload), arg.payload, <<>>))]
    /\ pc' = "done"
    /\ UNCHANGED <<arg, warnings, walk>>

NextYesno == DecodeYesno

SpecYesno == InitYesno /\ [][NextYesno]_vars

\* sub occurs in s as a run of consecutive elements.
Contains(s, sub) ==
    \E i \in 0..(Len(s) - Len(sub)) : SubSeq(s, i + 1, i + Len(sub)) = sub

\* " followed by zero mis-encoded as '0' == 0x30"
MisEncodedFlag ==
    <<32, 102, 111, 108, 108, 111, 119, 101, 100, 32, 98, 121, 32, 122, 101, 114,
      111, 32, 109, 105, 115, 45, 101, 110, 99, 111, 100, 101, 100, 32, 97, 115,
      32, 39, 48, 39, 32, 61, 61, 32, 48, 120, 51, 48>>

\* The bytes of the second 2-byte field of the payload up to its first NUL.
NoField(q) ==
    IF q[3] = 0 THEN <<>> ELSE IF q[4] = 0 THEN <<q[3]>> ELSE <<q[3], q[4]>>

Printable(c) == 32 <= c /\ c < 127

\* C12 as stated: on a payload of at least 4 bytes 'yes' carries the
\* mis-encoding flag exactly when the second byte is 0x30, and 'no' is the
\* bytes of the second field up to its first NUL.
C12_YesnoNoIsFieldBytes ==
    (pc = "done" /\ Len(arg.payload) >= 4) =>
        /\ Contains(ret.val.yes, MisEncodedFlag) <=> arg.payload[2] = 48
        /\ ret.val.no = NoField(arg.payload)

\* C12 amended: on a payload of at least 4 bytes 'yes' carries the
\* mis-encoding flag exactly when the second byte is 0x30; 'no' is the bytes
\* of the second field up to its first NUL when there are some and all are
\* printable ASCII, the text <unspecified> when there are none, and otherwise
\* a text with 4 characters (\xHH) for each byte that is not printable.
C12_YesnoFlagAndNoText ==
    (pc = "done" /\ Len(arg.payload) >= 4) =>
        LET field == NoField(arg.payload)
            no == ret.val.no
        IN  /\ Contains(ret.val.yes, MisEncodedFlag) <=> arg.payload[2] = 48
            /\ (field # <<>> /\ \A k \in 1..Len(field) : Printable(field[k]))
                  => no = field
            /\ field = <<>>
                  => no = <<60, 117, 110, 115, 112, 101, 99, 105, 102, 105, 101, 100, 62>>
            /\ (\E k \in 1..Len(field) : ~Printable(field[k]))
                  => /\ no # field
                     /\ Len(no) = Len(field)
                            + 3 * Cardinality({k \in 1..Len(field) : ~Printable(field[k])})
                     /\ no[1] = IF Printable(field[1]) THEN field[1] ELSE 92

\* The payload 0x59 0x30 0x4E 0x00 was decoded: 'yes' carries the flag and
\* 'no' is N.
C12_Witness ==
    /\ pc = "done"
    /\ arg.payload = <<89, 48, 78, 0>>
    /\ Contains(ret.val.yes, MisEncodedFlag)
    /\ ret.val.yes[1] = 89
    /\ ret.val.no = <<78>>

---------------------------------------------------------------------------
(* Properties of the output of compare_country_sys *)

\* The entry of the filtered document of the comparison that the key selects.
ComparedEntry(doc, key) ==
    EntryOf(filter_entries(doc.entries, arg.country, arg.codepage), key)

\* The two records of a shared subfunction identifier agree in what the
\* comparison looks at: the compared CTYINFO fields, the bytes of a table, the
\* DBCS ranges, the yes and no texts.
ComparedDataEqual(id, sa, sb) ==
    /\ (id = 1 /\ sa.decoded # <<>> /\ sb.decoded # <<>>) =>
          \A k \in 1..Len(CompareFields) :
              sa.decoded[1][CompareFields[k]] = sb.decoded[1][CompareFields[k]]
    /\ (id \in {2, 3, 4, 6} /\ sa.tagged # <<>> /\ sb.tagged # <<>>) =>
          sa.tagged[1].payload = sb.tagged[1].payload
    /\ (id = 7 /\ sa.decoded # <<>> /\ sb.decoded # <<>>) =>
          sa.decoded[1].ranges = sb.decoded[1].ranges
    /\ (id = 35 /\ sa.decoded # <<>> /\ sb.decoded # <<>>) =>
          sa.decoded[1].yes = sb.decoded[1].yes /\ sa.decoded[1].no = sb.decoded[1].no

\* The two entries of a shared key have the same subfunction identifiers and
\* equal compared data.
EntriesCompareEqual(ea, eb) ==
    /\ SfIds(ea) = SfIds(eb)
    /\ \A id \in SfIds(ea) : ComparedDataEqual(id, SfOf(ea, id), SfOf(eb, id))

\* The sections of the output of the given kinds.
Sections(out, kinds) == {k \in 1..Len(out) : out[k].kind \in kinds}

\* C13: compare_country_sys emits no entry section for a shared key whose two
\* entries have equal subfunction-identifier sets and equal compared data;
\* and for two documents with the same entries it reports no key only in A,
\* none only in B, no codepage difference and no entry section.
C13_SilentOnEquality ==
    pc = "done" =>
        /\ \A key \in ret.val.shared :
              EntriesCompareEqual(ComparedEntry(arg.doc_a, key), ComparedEntry(arg.doc_b, key))
                 => \A k \in Sections(ret.val.out, {"entry"}) : ret.val.out[k].key # key
        /\ arg.doc_a.entries = arg.doc_b.entries =>
              /\ ret.val.only_a = {} /\ ret.val.only_b = {}
              /\ Sections(ret.val.out, {"only in A", "only in B", "country", "entry"}) = {}

\* Two documents were compared that share (1, 437) with the same UCASE table
\* and (44, 437) with CTYINFO and YESNO records that differ only outside the
\* compared data, and no entry section was emitted.
C13_Witness ==
    /\ pc = "done"
    /\ arg.doc_a.entries # arg.doc_b.entries
    /\ ret.val.shared = {<<1, 437>>, <<44, 437>>}
    /\ ComparedEntry(arg.doc_a, <<44, 437>>) # ComparedEntry(arg.doc_b, <<44, 437>>)
    /\ ComparedEntry(arg.doc_a, <<1, 437>>).subfuncs # <<>>
    /\ Sections(ret.val.out, {"entry"}) = {}

\* C15: whenever one of the two documents has diagnostics, the output of
\* compare_country_sys holds the diagnostics of both documents.
C15_CompareShowsDiagnostics ==
    (pc = "done" /\ (arg.doc_a.warnings # <<>> \/ arg.doc_b.warnings # <<>>)) =>
        \E k \in Sections(ret.val.out, {"warnings"}) :
            /\ ret.val.out[k].a = arg.doc_a.warnings
            /\ ret.val.out[k].b = arg.doc_b.warnings

---------------------------------------------------------------------------
(* print_summary and print_default *)

\* filter_entries returns the list it was given, not a new list, when neither
\* filter is set: the caller's list and the document's list are one object.
FilterReturnsArgument(country, codepage) == country = <<>> /\ codepage = <<>>

\* list.sort(key=lambda e: (e.country, e.codepage)): the stable order, by
\* inserting each element after the elements that are not greater.
RECURSIVE SortEntries(_)
SortEntries(es) ==
    IF es = <<>> THEN <<>>
    ELSE LET rest == SortEntries(SubSeq(es, 1, Len(es) - 1))
             e == es[Len(es)]
             key == <<e.country, e.codepage>>
             before == SelectSeq(rest, LAMBDA o : ~KeyLess(key, <<o.country, o.codepage>>))
             after == SelectSeq(rest, LAMBDA o : KeyLess(key, <<o.country, o.codepage>>))
         IN  before \o <<e>> \o after

\* sorted(e.subfuncs, key=lambda s: s.subfunc_id): a new list, stable.
RECURSIVE SortSubfuncs(_)
SortSubfuncs(sfs) ==
    IF sfs = <<>> THEN <<>>
    ELSE LET rest == SortSubfuncs(SubSeq(sfs, 1, Len(sfs) - 1))
             r == sfs[Len(sfs)]
         IN  SelectSeq(rest, LAMBDA o : o.subfunc_id <= r.subfunc_id) \o <<r>>
             \o SelectSeq(rest, LAMBDA o : o.subfunc_id > r.subfunc_id)

\* The head of print_summary and print_default: the entries shown, and the
\* list the document holds after the sort.
shown_entries(doc, unsorted, country, codepage) ==
    LET filtered == filter_entries(doc.entries, country, codepage)
        shown == IF unsorted THEN filtered ELSE SortEntries(filtered)
    IN  [shown |-> shown,
         doc_entries |-> IF FilterReturnsArgument(country, codepage)
                         THEN shown ELSE doc.entries]

\* The records of an entry as the renderers walk them: identifier 0 skipped.
shown_subfuncs(e, unsorted) ==
    SelectSeq(IF unsorted THEN e.subfuncs ELSE SortSubfuncs(e.subfuncs),
              LAMBDA r : r.subfunc_id # 0)

\* print_summary(doc, unsorted, no_offsets, country, codepage): the lines
\* printed (one for each entry, with the identifiers of its records) and the
\* entries of the document after the call.
print_summary(doc, unsorted, country, codepage) ==
    LET h == shown_entries(doc, unsorted, country, codepage)
    IN  [doc_entries |-> h.doc_entries,
         total |-> Len(h.shown),
         lines |-> [k \in 1..Len(h.shown) |->
                      [key |-> <<h.shown[k].country, h.shown[k].codepage>>,
                       entry_off |-> h.shown[k].offset,
                       sf_ids |-> [j \in 1..Len(shown_subfuncs(h.shown[k], unsorted)) |->
                                     shown_subfuncs(h.shown[k], unsorted)[j].subfunc_id]]],
         warnings |-> doc.warnings]

\* print_default(doc, unsorted, no_offsets, country, codepage): the blocks
\* printed (one for each entry, with its records) and the entries of the
\* document after the call.
print_default(doc, unsorted, country, codepage) ==
    LET h == shown_entries(doc, unsorted, country, codepage)
    IN  [doc_entries |-> h.doc_entries,
         total |-> Len(h.shown),
         lines |-> [k \in 1..Len(h.shown) |->
                      [key |-> <<h.shown[k].country, h.shown[k].codepage>>,
                       entry_off |-> h.shown[k].offset,
                       sfs |-> shown_subfuncs(h.shown[k], unsorted)]],
         warnings |-> doc.warnings]

\* Bound of the documents rendered: up to MaxEntries entries.
MaxEntries == 3

\* The entries the rendered documents are made of; the one at offset n has
\* the n-th key, and the third has its records out of order.
RenderedEntry(n) ==
    CASE n = 1 -> CountryEntry(1, 12, 44, 850, 0, 0, NullPtr, <<>>)
      [] n = 2 -> CountryEntry(2, 12, 1, 437, 0, 0, NullPtr, <<>>)
      [] OTHER -> CountryEntry(3, 12, 1, 850, 0, 0, NullPtr,
                     <<SubfuncEntry(41, 6, 35, NullPtr, <<>>, <<>>),
                       SubfuncEntry(49, 2, 0, NullPtr, <<>>, <<>>),
                       SubfuncEntry(53, 6, 2, NullPtr, <<>>, <<>>)>>)

\* The lists of n entries.
RECURSIVE EntryLists(_)
EntryLists(n) ==
    IF n = 0 THEN {<<>>}
    ELSE {Append(q, RenderedEntry(k)) : q \in EntryLists(n - 1), k \in 1..3}

InitRender ==
    /\ pc = "call"
    /\ \E n \in 0..MaxEntries : \E es \in EntryLists(n) :
       \E unsorted \in BOOLEAN, country \in {<<>>, <<1>>}, codepage \in {<<>>, <<850>>},
          fn \in {"print_summary", "print_default"} :
         arg = [doc |-> ParsedCountrySys(128, 1, 1, <<>>, es, <<>>), fn |-> fn,
                unsorted |-> unsorted, country |-> country, codepage |-> codepage]
    /\ ret = NoRet
    /\ warnings = <<>>
    /\ WalkIdle

PrintSummary ==
    /\ pc = "call"
    /\ arg.fn = "print_summary"
    /\ ret' = [kind |-> "None",
               val |-> print_summary(arg.doc, arg.unsorted, arg.country, arg.codepage)]
    /\ pc' = "done"
    /\ UNCHANGED <<arg, warnings, walk>>

PrintDefault ==
    /\ pc = "call"
    /\ arg.fn = "print_default"
    /\ ret' = [kind |-> "None",
               val |-> print_default(arg.doc, arg.unsorted, arg.country, arg.codepage)]
    /\ pc' = "done"
    /\ UNCHANGED <<arg, warnings, walk>>

NextRender == PrintSummary \/ PrintDefault

SpecRender == InitRender /\ [][NextRender]_vars

\* C14: after print_summary or print_default, with any combination of
\* options, the document holds the same entries in the same order as before
\* the call.
C14_RenderLeavesDocument ==
    pc = "done" => ret.val.doc_entries = arg.doc.entries

---------------------------------------------------------------------------
(* Properties of decode_far_ptr *)

\* segment * 16 + offset of the pointer decoded.
SegmentedAddress == arg.seg * 16 + arg.off

\* C16: for a pointer with a non-zero segment whose segment*16 + offset does
\* not exceed the buffer length, decode_far_ptr returns
\* linear = segment*16 + offset.
C16_SegmentedLinear ==
    (pc = "done" /\ arg.seg # 0 /\ SegmentedAddress <= arg.file_len) =>
        ret.val.linear = SegmentedAddress

\* C17: whenever segment*16 + offset exceeds the buffer length,
\* decode_far_ptr returns a FarPtr and appends at least one diagnostic; the
\* linear address is the low 16 bits when they do not exceed the buffer
\* length, and otherwise lies beyond the buffer length.
C17_BeyondEOFFallback ==
    (pc = "done" /\ SegmentedAddress > arg.file_len) =>
        /\ ret.kind = "FarPtr"
        /\ warnings # <<>>
        /\ IF arg.off <= arg.file_len
           THEN ret.val.linear = arg.off
           ELSE ret.val.linear > arg.file_len

\* The pointer 0FFF:0014 was decoded for a 20-byte buffer: the offset is
\* returned with the fallback diagnostic.
C17_Witness ==
    /\ pc = "done"
    /\ arg.seg = 4095 /\ arg.off = 20 /\ arg.file_len = 20
    /\ ret.val.linear = 20
    /\ warnings = <<"far ptr beyond EOF; using low16">>

---------------------------------------------------------------------------
(* find_copyright_and_version *)

VERSION == <<86, 69, 82, 83, 73, 79, 78>>

\* The number of bytes the scan for the tag byte goes back from the NUL.
ScanLimit == 1000

\* find_copyright_and_version(buf): None, or the dictionary with the
\* copyright text and, in version, the version text when there is one.
find_copyright_and_version(b) ==
    LET flen == FLen(b)
        zeros == {i \in 0..(flen - 1) : ByteAt(b, i) = 0}
    IN  IF flen < 10 \/ zeros = {} THEN [kind |-> "None"]
        ELSE
        LET zero_pos == CHOOSE z \in zeros : \A i \in zeros : i <= z
            starts == {i \in (Max(0, zero_pos - ScanLimit) + 1)..(zero_pos - 1) :
                          /\ ByteAt(b, i) = 255
                          /\ i + 10 <= flen
                          /\ i + 10 < zero_pos}
        IN  IF starts = {} THEN [kind |-> "None"]
            ELSE
            LET tagged_start == CHOOSE s \in starts : \A i \in starts : i <= s
                copyright_str == RStrip(DecodeAscii(Slice(b, zero_pos + 1, flen)),
                                        {0, 32, 13, 10})
                magic == DecodeAscii(RStrip(Slice(b, tagged_start + 1, tagged_start + 8),
                                            {32, 0}))
                size == U16(b, tagged_start + 8)
                payload_start == tagged_start + 10
                major == RStrip(DecodeAscii(Slice(b, payload_start, payload_start + 2)), {0})
                minor == RStrip(DecodeAscii(Slice(b, payload_start + 2, payload_start + 4)), {0})
            IN  [kind |-> "dict",
                 val |-> [copyright |-> copyright_str,
                          version |-> IF magic = VERSION /\ size = 4
                                         /\ payload_start + 4 <= flen
                                      THEN Some(major \o <<46>> \o minor) ELSE <<>>]]

\* n bytes of value c.
Fill(c, n) == [k \in 1..n |-> c]

\* The longest short copyright text tried.
MaxTextLen == 3

\* The buffers tried: lead bytes, a tag byte 0xFF with a magic and a size
\* word, a version payload or none, a gap of filler bytes in which one byte at
\* a distance near from the terminator may be a second 0xFF, the terminating
\* NUL or none, and the text, short (with or without trailing blanks) or
\* longer than the ScanLimit.
CopyrightInputs ==
    {Fill(65, lead) \o <<255>> \o head \o payload
       \o [k \in 1..gap |-> IF near > 0 /\ k = gap + 1 - near THEN 255 ELSE 66]
       \o nul \o text :
        lead \in {0, 1},
        head \in {VERSION \o LE16(4), VERSION \o LE16(5), COUNTRY \o LE16(4)},
        payload \in {<<>>, <<49, 0, 53, 0>>},
        gap \in {0, 1, ScanLimit - 15, ScanLimit - 14, ScanLimit - 13},
        near \in {0, 5, 11},
        nul \in {<<>>, <<0>>},
        text \in {Fill(67, n) : n \in (0..MaxTextLen) \cup {ScanLimit + 1}}
                 \cup {Fill(67, MaxTextLen) \o <<32, 13, 10>>}}

InitCopyright ==
    /\ pc = "call"
    /\ \E s \in CopyrightInputs : arg = [buf |-> Bytes(s)]
    /\ ret = NoRet
    /\ warnings = <<>>
    /\ WalkIdle

\* The call find_copyright_and_version(buf).
FindCopyright ==
    /\ pc = "call"
    /\ \E r \in {find_copyright_and_version(arg.buf)} : ret' = r
    /\ pc' = "done"
    /\ UNCHANGED <<arg, warnings, walk>>

NextCopyright == FindCopyright

SpecCopyright == InitCopyright /\ [][NextCopyright]_vars

\* C27: when no NUL lies in the last ScanLimit bytes of the buffer (the NUL
\* nearest to the end of the file, if any, is more than ScanLimit bytes before
\* the end), find_copyright_and_version returns None.
C27_NulSoughtInLastBytes ==
    (pc = "done"
       /\ \A i \in Max(0, FLen(arg.buf) - ScanLimit)..(FLen(arg.buf) - 1) :
              ByteAt(arg.buf, i) # 0)
    => ret.kind = "None"

\* C28: find_copyright_and_version returns a result exactly when the buffer
\* holds a NUL and, among the ScanLimit bytes before the last NUL, a byte 0xFF
\* at a position i with i + 10 < the position of the NUL.  The copyright is
\* then the bytes after the last NUL without trailing NUL, space, CR and LF,
\* and a version is given only when the block at the qualifying 0xFF nearest
\* to the NUL has the magic VERSION and the size 4.
C28_ResultIffQualifyingBlock ==
    pc = "done" =>
        LET b == arg.buf
            zeros == {i \in 0..(FLen(b) - 1) : ByteAt(b, i) = 0}
            zero_pos == CHOOSE z \in zeros : \A i \in zeros : i <= z
            qualifying == IF zeros = {} THEN {}
                          ELSE {i \in Max(0, zero_pos - ScanLimit)..(zero_pos - 1) :
                                    ByteAt(b, i) = 255 /\ i + 10 < zero_pos}
            nearest == CHOOSE s \in qualifying : \A i \in qualifying : i <= s
        IN  /\ ret.kind = "dict" <=> qualifying # {}
            /\ ret.kind = "dict" =>
                 /\ ret.val.copyright
                      = RStrip(DecodeAscii(Slice(b, zero_pos + 1, FLen(b))), {0, 32, 13, 10})
                 /\ ret.val.version # <<>> =>
                      /\ DecodeAscii(RStrip(Slice(b, nearest + 1, nearest + 8), {32, 0}))
                           = VERSION
                      /\ U16(b, nearest + 8) = 4

---------------------------------------------------------------------------
(* compare_table_data *)

\* The longest table payload tried (three rows of 8 bytes, the last one short)
\* and the largest number of positions changed in it.
MaxTableLen == 20
MaxChanged == 3

\* The payload of n bytes with the positions of changed set to another value.
TablePayload(n, changed) ==
    [k \in 1..n |-> IF (k - 1) \in changed THEN 0 ELSE 128 + k]

\* The lengths tried: empty, one byte, one row, one row and a byte, and the
\* longest.
TableLengths == {0, 1, 8, 9, MaxTableLen}

InitTable ==
    /\ pc = "call"
    /\ \E n \in TableLengths, m \in TableLengths :
         \E changed \in {c \in SUBSET (0..(m - 1)) : Cardinality(c) <= MaxChanged} :
           /\ (n # m => changed = {})
           /\ arg = [tag_a |-> Tagged(64, 255, Magic7(UCASE, 32), UCASE, n,
                                      TablePayload(n, {}), <<>>),
                     tag_b |-> Tagged(64, 255, Magic7(UCASE, 32), UCASE, m,
                                      TablePayload(m, changed), <<>>)]
    /\ ret = NoRet
    /\ warnings = <<>>
    /\ WalkIdle

\* The call compare_table_data(tag_a, tag_b, sf_id).
CompareTableData ==
    /\ pc = "call"
    /\ \E r \in {compare_table_data(arg.tag_a, arg.tag_b)} :
           ret' = [kind |-> "Optional", val |-> r]
    /\ pc' = "done"
    /\ UNCHANGED <<arg, warnings, walk>>

NextTable == CompareTableData

SpecTable == InitTable /\ [][NextTable]_vars

\* C29: compare_table_data returns None exactly when the payloads are equal
\* byte for byte; only the two sizes when the lengths differ; and otherwise
\* the rows with their bytes exactly when all differing positions lie in one
\* row of 8 bytes or in two consecutive rows, and only the count of differing
\* bytes in every other case.
C29_TableSummary ==
    pc = "done" =>
        LET pa == arg.tag_a.payload
            pb == arg.tag_b.payload
            differing == {p \in 0..(Len(pa) - 1) : pa[p + 1] # pb[p + 1]}
            near == \E r \in 0..(Len(pa) \div 8) :
                        \A p \in differing : p \div 8 \in {r, r + 1}
        IN  /\ ret.val = <<>> <=> pa = pb
            /\ Len(pa) # Len(pb) =>
                 ret.val = Some([kind |-> "sizes differ", a |-> Len(pa), b |-> Len(pb)])
            /\ (Len(pa) = Len(pb) /\ pa # pb) =>
                 IF near
                 THEN /\ ret.val[1].kind = "rows"
                      /\ ret.val[1].count = Cardinality(differing)
                      /\ {ret.val[1].lines[k] : k \in 1..Len(ret.val[1].lines)}
                           = {p \div 8 : p \in differing}
                      /\ \A k \in 1..Len(ret.val[1].rows) :
                             LET row == ret.val[1].rows[k]
                             IN  /\ row.line = ret.val[1].lines[k]
                                 /\ row.first = 8 * row.line
                                 /\ row.last = Min(8 * row.line + 7, Len(pa) - 1)
                                 /\ row.a = SubSeq(pa, row.first + 1, row.last + 1)
                                 /\ row.b = SubSeq(pb, row.first + 1, row.last + 1)
                                 /\ row.marked = {p \in differing : p \div 8 = row.line}
                 ELSE ret.val = Some([kind |-> "count", count |-> Cardinality(differing)])

\* Two payloads of equal length that differ in the last byte of the first row
\* and the first byte of the second row: two consecutive rows are shown.
C29_Witness ==
    /\ pc = "done"
    /\ Len(arg.tag_a.payload) = Len(arg.tag_b.payload)
    /\ Len(arg.tag_a.payload) >= 9
    /\ arg.tag_a.payload[8] # arg.tag_b.payload[8]
    /\ arg.tag_a.payload[9] # arg.tag_b.payload[9]
    /\ ret.val # <<>>
    /\ ret.val[1].kind = "rows"
    /\ Len(ret.val[1].rows) = 2

=============================================================================
